---- MODULE Spec2Model ----
(***************************************************************************)
(* Outcome sharing and session bootstrap of the QA_Assignment Playwright   *)
(* framework: the file-backed outcome store (utils/outcomeHelper.js), the  *)
(* global setup / teardown hooks and the "Login Flow" tests that use the   *)
(* store to gate the logout test.                                          *)
(***************************************************************************)
EXTENDS Integers, Sequences, FiniteSets, TLC

VARIABLES
    disk,       \* temp/ directory and temp/testData.json
    call,       \* last completed call on the outcome store (sequential use)
    writers,    \* concurrent callers of writeTestData, one per process
    env,        \* settings.json and the environment variables of the run
    run,        \* the test run: its number and the phase it is in
    boot,       \* the global setup (session bootstrap) of the run
    snapshot,   \* storageState/storageState.json
    tests,      \* the "Login Flow" tests of every project
    fx,         \* the fixtures of the test a worker is running
    tdm,        \* the TestDataManager instance of the worker process
    retry,      \* a call of retryAction / retryAssertion
    cfg,        \* settings.json and the settings a process loaded from it
    api,        \* an APIHelper instance and the requests issued on it
    auth,       \* the authenticatedUser fixture of one test
    dataDir     \* testData/*.json and the last call on the TestDataManager

(***************************************************************************)
(* JavaScript values and objects                                           *)
(***************************************************************************)
\* a string is the sequence of its UTF-16 code units, the text of a file the
\* sequence of its bytes; Units(s) is the string of the printable ASCII
\* characters s (U+0060 has no place in a literal of this module)
Ascii == " !\"#$%&'()*+,-./0123456789:;<=>?@ABCDEFGHIJKLMNOPQRSTUVWXYZ[\\]^_"

AsciiLower == "abcdefghijklmnopqrstuvwxyz{|}~"

\* the sequence f of length n, every element computed once
Tuple(f, n) == SubSeq(f, 1, n)

CodeOf(c) ==
    IF \E i \in 1..Len(Ascii) : SubSeq(Ascii, i, i) = c
    THEN 31 + (CHOOSE i \in 1..Len(Ascii) : SubSeq(Ascii, i, i) = c)
    ELSE 96 + (CHOOSE i \in 1..Len(AsciiLower) : SubSeq(AsciiLower, i, i) = c)

Units(s) == Tuple([i \in 1..Len(s) |-> CodeOf(SubSeq(s, i, i))], Len(s))

\* pieces[lo] \o ... \o pieces[hi]
RECURSIVE Flatten(_, _, _)
Flatten(pieces, lo, hi) ==
    IF Len(pieces) = 0 \/ lo > hi THEN <<>>
    ELSE IF lo = hi THEN pieces[lo]
    ELSE Flatten(pieces, lo, (lo + hi) \div 2) \o Flatten(pieces, ((lo + hi) \div 2) + 1, hi)

\* a JavaScript value, tagged with its type: <<"boolean", "true">>,
\* <<"string", code units>>, <<"number", Number::toString of the double>>,
\* <<"null", "null">>, <<"object", properties>>, <<"array", elements>>
JsTrue == <<"boolean", "true">>
JsFalse == <<"boolean", "false">>
Undefined == <<"undefined", "undefined">>
Null == <<"null", "null">>

String(s) == <<"string", Units(s)>>

\* ToBoolean of a value: false, 0, NaN, "", null and undefined are falsy,
\* every object and array is truthy
Truthy(v) ==
    CASE v[1] = "boolean" -> v[2] = "true"
      [] v[1] = "number" -> v[2] # "0" /\ v[2] # "NaN"
      [] v[1] = "string" -> v[2] # <<>>
      [] v[1] \in {"object", "array"} -> TRUE
      [] OTHER -> FALSE

(***************************************************************************)
(* Numbers: IEEE 754 doubles. A number is named by the text that           *)
(* Number::toString gives it: the shortest digits that read back as the    *)
(* same double                                                             *)
(***************************************************************************)
\* a natural number of any size is the sequence of its decimal digits, the
\* lowest first and the highest not 0; <<>> is 0
Zeros(n) == Tuple([i \in 1..n |-> 0], n)

RECURSIVE BigOf(_)
BigOf(n) == IF n = 0 THEN <<>> ELSE <<n % 10>> \o BigOf(n \div 10)

BigTwice(a) ==
    LET n == Len(a)
        m == IF n > 0 /\ a[n] >= 5 THEN n + 1 ELSE n
    IN  Tuple([i \in 1..m |-> (IF i <= n THEN (2 * a[i]) % 10 ELSE 0)
                              + (IF i > 1 /\ a[i - 1] >= 5 THEN 1 ELSE 0)], m)

\* w, with v evaluated before it: an argument of an operator is evaluated
\* where the operator first uses it, however deep inside, and Eager keeps
\* the evaluations from nesting
Eager(v, w) == IF v = v THEN w ELSE w

\* a * 2^k
RECURSIVE BigTimes2(_, _)
BigTimes2(a, k) ==
    IF Len(a) = 0 \/ k <= 0 THEN a
    ELSE IF k = 1 THEN BigTwice(a)
    ELSE LET half == BigTimes2(a, k \div 2)
         IN  Eager(half, BigTimes2(half, k - (k \div 2)))

\* a * 10^k
BigTimes10(a, k) == IF Len(a) = 0 \/ k <= 0 THEN a ELSE Zeros(k) \o a

\* -1, 0 or 1 as a is less than, equal to or greater than b
BigCompare(a, b) ==
    LET n == Len(a)
    IN  IF n # Len(b) THEN (IF n < Len(b) THEN -1 ELSE 1)
        ELSE IF a = b THEN 0
        ELSE LET d == CHOOSE d \in 0..(n - 1) :
                          /\ a[n - d] # b[n - d]
                          /\ \A e \in 0..(d - 1) : a[n - e] = b[n - e]
             IN  IF a[n - d] < b[n - d] THEN -1 ELSE 1

BigPlus(a, b) ==
    LET n == IF Len(a) > Len(b) THEN Len(a) ELSE Len(b)
        s == Tuple([i \in 1..n |-> (IF i <= Len(a) THEN a[i] ELSE 0)
                                   + (IF i <= Len(b) THEN b[i] ELSE 0)], n)
        \* the carry into digit i comes from the nearest lower digit that is not 9
        carry(i) ==
            /\ \E d \in 1..(i - 1) : s[i - d] # 9
            /\ s[i - (CHOOSE d \in 1..(i - 1) :
                          /\ s[i - d] # 9
                          /\ \A e \in 1..(d - 1) : s[i - e] = 9)] >= 10
        m == IF carry(n + 1) THEN n + 1 ELSE n
    IN  Tuple([i \in 1..m |-> ((IF i <= n THEN s[i] ELSE 0)
                               + (IF carry(i) THEN 1 ELSE 0)) % 10], m)

\* a - b for a >= b
BigMinus(a, b) ==
    LET n == Len(a)
        t == Tuple([i \in 1..n |-> a[i] - (IF i <= Len(b) THEN b[i] ELSE 0)], n)
        \* the borrow from digit i goes to the nearest lower digit that is not 0
        borrow(i) ==
            /\ \E d \in 1..(i - 1) : t[i - d] # 0
            /\ t[i - (CHOOSE d \in 1..(i - 1) :
                          /\ t[i - d] # 0
                          /\ \A e \in 1..(d - 1) : t[i - e] = 0)] < 0
        r == Tuple([i \in 1..n |-> (t[i] - (IF borrow(i) THEN 1 ELSE 0) + 10) % 10], n)
        m == IF \A i \in 1..n : r[i] = 0 THEN 0
             ELSE n - (CHOOSE d \in 0..(n - 1) :
                           /\ r[n - d] # 0
                           /\ \A e \in 0..(d - 1) : r[n - e] = 0)
    IN  SubSeq(r, 1, m)

\* the doubles: 53 bits of significand times 2^e for MinExp <= e <= MaxExp
SignificandBits == 53

MinExp == -1074

MaxExp == 971

\* a / l = v / 2^b for the value v to convert: b is raised or lowered until
\* l <= a < 2l, the significand has its highest bit set, or b = MinExp
RECURSIVE Scale2(_, _, _)
Scale2(a, l, b) ==
    LET l2 == BigTwice(l)
        a2 == BigTwice(a)
    IN  IF BigCompare(a, l2) >= 0 THEN Scale2(a, l2, b + 1)
        ELSE IF BigCompare(a, l) < 0 /\ b > MinExp THEN Eager(a2, Scale2(a2, l, b - 1))
        ELSE [a |-> a, l |-> l, b |-> b]

\* one step of the division of r by l for r < 2l: the next bit of the
\* quotient, r becomes twice the remainder
QuotientStep(q, l) ==
    LET one == BigCompare(q.rest, l) >= 0
    IN  [bits |-> Append(q.bits, IF one THEN 1 ELSE 0),
         rest |-> BigTwice(IF one THEN BigMinus(q.rest, l) ELSE q.rest)]

\* n steps of the division: n more bits of the quotient, the highest first
RECURSIVE Quotient(_, _, _)
Quotient(q, l, n) ==
    IF n = 0 THEN q
    ELSE IF n = 1 THEN QuotientStep(q, l)
    ELSE LET half == Quotient(q, l, n \div 2)
         IN  Eager(half, Quotient(half, l, n - (n \div 2)))

\* bits + 1; [carry |-> TRUE] when every bit was 1
Increment(bits) ==
    LET n == Len(bits)
    IN  IF \A i \in 1..n : bits[i] = 1
        THEN [carry |-> TRUE, bits |-> <<1>> \o Zeros(n - 1)]
        ELSE LET d == CHOOSE d \in 0..(n - 1) :
                          /\ bits[n - d] = 0
                          /\ \A e \in 0..(d - 1) : bits[n - e] = 1
             IN  [carry |-> FALSE,
                  bits |-> Tuple([i \in 1..n |-> IF i < n - d THEN bits[i]
                                                 ELSE IF i = n - d THEN 1 ELSE 0], n)]

Zero == [class |-> "zero", bits |-> Zeros(SignificandBits), e |-> MinExp]

Infinite == [class |-> "infinite", bits |-> Zeros(SignificandBits), e |-> MaxExp + 1]

\* the double with the significand bits and the exponent e
DoubleOf(bits, e) ==
    IF e > MaxExp THEN Infinite
    ELSE IF \A i \in 1..SignificandBits : bits[i] = 0 THEN Zero
    ELSE [class |-> "finite", bits |-> bits, e |-> e]

\* the double above the one with the significand bits and the exponent b
Raised(inc, b) == DoubleOf(inc.bits, IF inc.carry THEN b + 1 ELSE b)

\* the double of the quotient q of a division with the divisor l and the
\* exponent b: rounded up when the rest is more than half of l (half is 1),
\* or half of it (half is 0) and the last bit is 1
RoundedAt(q, b, half) ==
    IF half > 0 \/ (half = 0 /\ q.bits[SignificandBits] = 1)
    THEN Raised(Increment(q.bits), b)
    ELSE DoubleOf(q.bits, b)

Rounded(q, l, b) == Eager(q, RoundedAt(q, b, BigCompare(q.rest, l)))

\* the double of a / l * 2^b for l <= a < 2l or b = MinExp
Divided(scaled) ==
    Eager(scaled, Rounded(Quotient([bits |-> <<>>, rest |-> scaled.a], scaled.l,
                                   SignificandBits), scaled.l, scaled.b))

\* the double of num / den * 2^b
Ratio(num, den, b) == Eager(<<num, den>>, Divided(Scale2(num, den, b)))

\* the double of digits * 10^exp10 for the first exponent b to try
RoundFrom(digits, exp10, b) ==
    Ratio(BigTimes2(BigTimes10(digits, exp10), -b),
          BigTimes2(BigTimes10(<<1>>, -exp10), (IF b > 0 THEN b ELSE 0) + SignificandBits - 1),
          b)

\* an exponent b with 2^(b + 52) <= 10^(magnitude - 1), MinExp at least:
\* log2(10) > 3.321928
FirstExponent(magnitude) ==
    IF ((3321928 * (magnitude - 1)) \div 1000000) - (SignificandBits - 1) < MinExp
    THEN MinExp
    ELSE ((3321928 * (magnitude - 1)) \div 1000000) - (SignificandBits - 1)

\* the double nearest to digits * 10^exp10, ties to the even significand;
\* digits is a natural number greater than 0
RoundToDouble(digits, exp10) ==
    IF Len(digits) + exp10 > 309 THEN Infinite
    ELSE IF Len(digits) + exp10 < -323 THEN Zero
    ELSE RoundFrom(digits, exp10, FirstExponent(Len(digits) + exp10))

\* the natural number with the bits lo to hi, the highest first
RECURSIVE BigOfBits(_, _, _)
BigOfHalves(high, low, k) == Eager(<<high, low>>, BigPlus(BigTimes2(high, k), low))

BigOfBits(bits, lo, hi) ==
    IF lo > hi THEN <<>>
    ELSE IF lo = hi THEN (IF bits[lo] = 1 THEN <<1>> ELSE <<>>)
    ELSE BigOfHalves(BigOfBits(bits, lo, (lo + hi) \div 2),
                     BigOfBits(bits, ((lo + hi) \div 2) + 1, hi), hi - ((lo + hi) \div 2))

\* r / s and the distances mp / s, mm / s to the neighbours are scaled by
\* powers of 10 until the digits of r / s start right after the point: low
\* and ten compare r + mp and 10 (r + mp) with s
RECURSIVE Scale10(_, _, _, _, _, _)
Scale10Compared(r, s, mp, mm, k, even, low, ten) ==
    IF low > 0 \/ (even /\ low = 0)
    THEN Scale10(r, BigTimes10(s, 1), mp, mm, k + 1, even)
    ELSE IF ten < 0 \/ (~even /\ ten = 0)
    THEN Scale10(BigTimes10(r, 1), s, BigTimes10(mp, 1), BigTimes10(mm, 1), k - 1, even)
    ELSE [r |-> r, s |-> s, mp |-> mp, mm |-> mm, k |-> k]

Scale10High(r, s, mp, mm, k, even, high) ==
    Scale10Compared(r, s, mp, mm, k, even, BigCompare(high, s),
                    BigCompare(BigTimes10(high, 1), s))

Scale10(r, s, mp, mm, k, even) == Scale10High(r, s, mp, mm, k, even, BigPlus(r, mp))

\* s, 2s, ..., 9s
MultiplesUp(s, m2, m3, m4) ==
    <<s, m2, m3, m4, BigPlus(m4, s), BigTwice(m3), BigPlus(BigTwice(m3), s),
      BigTwice(m4), BigPlus(BigTwice(m4), s)>>

MultiplesTwice(s, m2) == MultiplesUp(s, m2, BigPlus(m2, s), BigTwice(m2))

Multiples(s) == MultiplesTwice(s, BigTwice(s))

\* the last digit of a number: d or d + 1, whichever is nearer to what is
\* left (rem / s), when both are near enough
LastDigit(d, rem, s, tc1, tc2) ==
    IF ~tc2 THEN d
    ELSE IF ~tc1 THEN d + 1
    ELSE IF BigCompare(BigTwice(rem), s) < 0 THEN d
    ELSE d + 1

\* the digits with the next digit d, for the rest rem and the distances
\* mp10, mm10; low and high compare rem with mm10 and rem + mp10 with s
GenerateEnded(g, s, even, d, rem, mp10, mm10, tc1, tc2) ==
    [digits |-> Append(g.digits, LastDigit(d, rem, s, tc1, tc2)),
     r |-> rem, mp |-> mp10, mm |-> mm10, done |-> tc1 \/ tc2]

GenerateCompared(g, s, even, d, rem, mp10, mm10, low, high) ==
    GenerateEnded(g, s, even, d, rem, mp10, mm10, low < 0 \/ (even /\ low = 0),
                  high > 0 \/ (even /\ high = 0))

GenerateRest(g, s, even, d, rem, mp10, mm10) ==
    GenerateCompared(g, s, even, d, rem, mp10, mm10, BigCompare(rem, mm10),
                     BigCompare(BigPlus(rem, mp10), s))

GenerateDigit(g, s, multiples, even, d, r10) ==
    GenerateRest(g, s, even, d, IF d = 0 THEN r10 ELSE BigMinus(r10, multiples[d]),
                 BigTimes10(g.mp, 1), BigTimes10(g.mm, 1))

GenerateTimes10(g, s, multiples, even, r10) ==
    GenerateDigit(g, s, multiples, even,
                  Cardinality({j \in 1..9 : BigCompare(multiples[j], r10) <= 0}), r10)

\* the next digit of r / s: g holds the digits so far, the rest r and the
\* distances mp, mm; the digits are done with the first one after which
\* every number that starts with them lies nearer to r / s than to its
\* neighbours
GenerateStep(g, s, multiples, even) ==
    GenerateTimes10(g, s, multiples, even, BigTimes10(g.r, 1))

\* up to n more digits
RECURSIVE Generate(_, _, _, _, _)
GenerateMore(half, s, multiples, even, n) ==
    Eager(half, Generate(half, s, multiples, even, n))

Generate(g, s, multiples, even, n) ==
    IF g.done THEN g
    ELSE IF n = 1 THEN GenerateStep(g, s, multiples, even)
    ELSE GenerateMore(Generate(g, s, multiples, even, n \div 2), s, multiples, even,
                      n - (n \div 2))

\* a double has at most this many shortest digits
MaxDigits == 17

\* the digits of scaled.r / scaled.s
ShortestDigits(scaled, multiples, even) ==
    Eager(multiples,
          [digits |-> Generate([digits |-> <<>>, r |-> scaled.r, mp |-> scaled.mp,
                                mm |-> scaled.mm, done |-> FALSE],
                               scaled.s, multiples, even, MaxDigits).digits,
           k |-> scaled.k])

ShortestScaled(scaled, even) ==
    Eager(scaled, ShortestDigits(scaled, Multiples(scaled.s), even))

\* k0 estimates the power of 10 of r / s
ShortestEstimated(r, s, mp, mm, even, k0) ==
    ShortestScaled(Scale10(BigTimes10(r, -k0), BigTimes10(s, k0), BigTimes10(mp, -k0),
                           BigTimes10(mm, -k0), k0, even), even)

ShortestBetween(r, s, mp, mm, even) ==
    Eager(<<r, s, mp>>,
          ShortestEstimated(r, s, mp, mm, even, Len(BigPlus(r, mp)) - Len(s)))

\* the double is r / s, the halves of the distances to the doubles above and
\* below it are mp / s and mm / s: the double below is half as far away
\* (narrow) when the significand is the least one
ShortestRatio(r, s, mm, even, narrow) ==
    Eager(mm, ShortestBetween(r, s, IF narrow THEN BigTwice(mm) ELSE mm, mm, even))

ShortestOf(f, e, even, narrow) ==
    Eager(f, ShortestRatio(BigTimes2(f, (IF e > 0 THEN e ELSE 0) + (IF narrow THEN 2 ELSE 1)),
                           BigTimes2(<<1>>, (IF e < 0 THEN -e ELSE 0)
                                            + (IF narrow THEN 2 ELSE 1)),
                           BigTimes2(<<1>>, IF e > 0 THEN e ELSE 0), even, narrow))

\* the shortest digits d1 d2 ... dn and the k for which 0.d1d2...dn * 10^k
\* reads back as the double bits * 2^e, the nearest to it of that length
Shortest(bits, e) ==
    ShortestOf(BigOfBits(bits, 1, SignificandBits), e, bits[SignificandBits] = 0,
               e > MinExp /\ bits = <<1>> \o Zeros(SignificandBits - 1))

\* the decimal digits lo to hi of a sequence as a text
RECURSIVE DigitsText(_, _, _)
DigitsText(digits, lo, hi) ==
    IF lo > hi THEN ""
    ELSE IF lo = hi THEN ToString(digits[lo])
    ELSE DigitsText(digits, lo, (lo + hi) \div 2)
         \o DigitsText(digits, ((lo + hi) \div 2) + 1, hi)

\* Number::toString of the positive number 0.d1d2...dn * 10^k
NumberText(digits, k) ==
    LET n == Len(digits)
        e == k - 1
    IN  IF n <= k /\ k <= 21 THEN DigitsText(digits \o Zeros(k - n), 1, k)
        ELSE IF 0 < k /\ k <= 21
        THEN DigitsText(digits, 1, k) \o "." \o DigitsText(digits, k + 1, n)
        ELSE IF -6 < k /\ k <= 0
        THEN "0." \o DigitsText(Zeros(-k) \o digits, 1, n - k)
        ELSE DigitsText(digits, 1, 1)
             \o (IF n > 1 THEN "." \o DigitsText(digits, 2, n) ELSE "")
             \o (IF e < 0 THEN "e-" \o ToString(-e) ELSE "e+" \o ToString(e))

\* the number with the sign, the decimal digits (the highest first) and the
\* power of 10 of a numeric literal; -0 is written 0
NumberOfShortest(negative, shortest) ==
    Eager(shortest, (IF negative THEN "-" ELSE "") \o NumberText(shortest.digits, shortest.k))

NumberOfDouble(negative, double) ==
    Eager(double, IF double.class = "zero" THEN "0"
                  ELSE IF double.class = "infinite"
                  THEN (IF negative THEN "-Infinity" ELSE "Infinity")
                  ELSE NumberOfShortest(negative, Shortest(double.bits, double.e)))

\* the digits first..last of the literal are the ones from the first to the
\* last that is not 0
NumberOfDigits(negative, literal, exp10, first, last) ==
    NumberOfDouble(negative,
                   RoundToDouble(Tuple([i \in 1..(last - first + 1) |-> literal[last + 1 - i]],
                                       last - first + 1),
                                 exp10 + Len(literal) - last))

NumberOfNonzero(negative, literal, exp10, nonzero) ==
    IF nonzero = {} THEN "0"
    ELSE NumberOfDigits(negative, literal, exp10,
                        CHOOSE i \in nonzero : \A j \in nonzero : i <= j,
                        CHOOSE i \in nonzero : \A j \in nonzero : i >= j)

NumberOf(negative, literal, exp10) ==
    NumberOfNonzero(negative, literal, exp10, {i \in 1..Len(literal) : literal[i] # 0})

(***************************************************************************)
(* Objects: own properties in the order JavaScript lists them              *)
(***************************************************************************)
\* the properties of an object are the sequence of its own properties
\* <<key, value>>, the keys distinct: first the keys that are array indices,
\* ascending, then the other keys in the order they were added
EmptyObject == <<>>

\* the value { ... } with the given properties, the value [ ... ]
Object(props) == <<"object", props>>

ArrayOf(elements) == <<"array", elements>>

OwnKeys(obj) == {obj[i][1] : i \in DOMAIN obj}

IsDigit(c) == 48 <= c /\ c <= 57

\* the largest array index, 2^32 - 2, as a key
MaxArrayIndex == <<52, 50, 57, 52, 57, 54, 55, 50, 57, 52>>

\* j < k for two keys that are decimal numerals without leading zeros
IndexLess(j, k) ==
    \/ Len(j) < Len(k)
    \/ /\ Len(j) = Len(k)
       /\ \E i \in 1..Len(j) : j[i] < k[i] /\ \A h \in 1..(i - 1) : j[h] = k[h]

\* a key is an array index when it is the canonical numeral of an integer
\* from 0 to 2^32 - 2
IsArrayIndex(k) ==
    /\ Len(k) >= 1
    /\ \A i \in 1..Len(k) : IsDigit(k[i])
    /\ Len(k) = 1 \/ k[1] # 48
    /\ ~IndexLess(MaxArrayIndex, k)

\* obj[k]: the value of the own property k, undefined when there is none
Get(obj, k) ==
    IF k \in OwnKeys(obj)
    THEN LET i == CHOOSE j \in DOMAIN obj : obj[j][1] = k IN obj[i][2]
    ELSE Undefined

\* obj[k] = v: an existing property keeps its place, a new array index goes
\* behind the smaller array indices, any other new key to the end
Put(obj, k, v) ==
    IF k \in OwnKeys(obj)
    THEN [i \in DOMAIN obj |-> IF obj[i][1] = k THEN <<k, v>> ELSE obj[i]]
    ELSE IF IsArrayIndex(k)
    THEN LET n == Cardinality({i \in DOMAIN obj :
                        IsArrayIndex(obj[i][1]) /\ IndexLess(obj[i][1], k)})
         IN  SubSeq(obj, 1, n) \o <<<<k, v>>>> \o SubSeq(obj, n + 1, Len(obj))
    ELSE Append(obj, <<k, v>>)

\* the integer of a numeral of at most 9 digits lo..hi of k
RECURSIVE NumeralValue(_, _, _)
NumeralValue(k, lo, hi) ==
    IF lo > hi THEN 0 ELSE 10 * NumeralValue(k, lo, hi - 1) + (k[hi] - 48)

LengthKey == Units("length")

\* v[k] for a value that is neither null nor undefined and a key that no
\* prototype defines: an own property of an object, the length or an element
\* of an array, the length or a code unit of a string
Member(v, k) ==
    LET inside == IsArrayIndex(k) /\ Len(k) <= 9 /\ NumeralValue(k, 1, Len(k)) < Len(v[2])
    IN  CASE v[1] = "object" -> Get(v[2], k)
          [] v[1] = "array" ->
                IF k = LengthKey THEN <<"number", ToString(Len(v[2]))>>
                ELSE IF inside THEN v[2][NumeralValue(k, 1, Len(k)) + 1]
                ELSE Undefined
          [] v[1] = "string" ->
                IF k = LengthKey THEN <<"number", ToString(Len(v[2]))>>
                ELSE IF inside THEN <<"string", <<v[2][NumeralValue(k, 1, Len(k)) + 1]>>>>
                ELSE Undefined
          [] OTHER -> Undefined

\* v.k throws a TypeError when v is null or undefined
MemberThrows(v) == v[1] \in {"null", "undefined"}

(***************************************************************************)
(* JSON.stringify(value, null, 2)                                          *)
(***************************************************************************)
\* the code unit of a text at position i, -1 outside of it
At(text, i) == IF 1 <= i /\ i <= Len(text) THEN text[i] ELSE -1

IsHighSurrogate(c) == 55296 <= c /\ c <= 56319

IsLowSurrogate(c) == 56320 <= c /\ c <= 57343

\* a surrogate that is not half of a pair
IsLoneSurrogate(s, i) ==
    \/ IsHighSurrogate(s[i]) /\ ~IsLowSurrogate(At(s, i + 1))
    \/ IsLowSurrogate(s[i]) /\ ~IsHighSurrogate(At(s, i - 1))

\* the hexadecimal digit of n < 16, in lower case
HexDigit(n) == IF n < 10 THEN 48 + n ELSE 87 + n

\* \uXXXX for the code unit c
UnicodeEscape(c) ==
    <<92, 117, HexDigit(c \div 4096), HexDigit((c \div 256) % 16),
      HexDigit((c \div 16) % 16), HexDigit(c % 16)>>

\* the code unit at position i of a string as it is written between quotes:
\* the quote, the backslash, every code unit below U+0020 and every lone
\* surrogate is escaped
EscapeUnit(s, i) ==
    LET c == s[i]
    IN  CASE c = 34 -> <<92, 34>>
          [] c = 92 -> <<92, 92>>
          [] c = 8 -> <<92, 98>>
          [] c = 12 -> <<92, 102>>
          [] c = 10 -> <<92, 110>>
          [] c = 13 -> <<92, 114>>
          [] c = 9 -> <<92, 116>>
          [] c < 32 /\ c \notin {8, 9, 10, 12, 13} -> UnicodeEscape(c)
          [] c >= 32 /\ c \notin {34, 92} /\ IsLoneSurrogate(s, i) -> UnicodeEscape(c)
          [] OTHER -> <<c>>

Escape(s) == Flatten(Tuple([i \in 1..Len(s) |-> EscapeUnit(s, i)], Len(s)), 1, Len(s))

Quote(s) == <<34>> \o Escape(s) \o <<34>>

Indent(n) == Tuple([i \in 1..n |-> 32], n)

\* a number: the text of a finite number, null for NaN and the infinities
StringifyNumber(text) ==
    IF text \in {"NaN", "Infinity", "-Infinity"} THEN Units("null") ELSE Units(text)

RECURSIVE Stringify(_, _)
\* entry i of the properties of an object or of the elements of an array,
\* on a line of its own
StringifyEntry(entries, i, isObject, indent) ==
    (IF i > 1 THEN <<44, 10>> ELSE <<>>) \o Indent(indent) \o
    (IF isObject
     THEN Quote(entries[i][1]) \o <<58, 32>> \o Stringify(entries[i][2], indent)
     ELSE Stringify(entries[i], indent))

\* the text of a value nested indent columns deep: a property whose value is
\* undefined is left out, an undefined element of an array is written null
Stringify(v, indent) ==
    CASE v[1] = "string" -> Quote(v[2])
      [] v[1] = "number" -> StringifyNumber(v[2])
      [] v[1] = "object" ->
            LET props == SelectSeq(v[2], LAMBDA p : p[2][1] # "undefined")
            IN  IF props = <<>> THEN <<123, 125>>
                ELSE <<123, 10>>
                     \o Flatten(Tuple([i \in 1..Len(props) |->
                                          StringifyEntry(props, i, TRUE, indent + 2)],
                                      Len(props)), 1, Len(props))
                     \o <<10>> \o Indent(indent) \o <<125>>
      [] v[1] = "array" ->
            IF v[2] = <<>> THEN <<91, 93>>
            ELSE <<91, 10>>
                 \o Flatten(Tuple([i \in 1..Len(v[2]) |->
                                      StringifyEntry(v[2], i, FALSE, indent + 2)],
                                  Len(v[2])), 1, Len(v[2]))
                 \o <<10>> \o Indent(indent) \o <<93>>
      [] v[1] = "undefined" -> Units("null")
      [] OTHER -> Units(v[2])

\* JSON.stringify(value, null, 2): a string, or undefined when the value is
\* undefined
JSONstringify(value) ==
    IF value[1] = "undefined" THEN Undefined ELSE <<"string", Stringify(value, 0)>>

(***************************************************************************)
(* UTF-8: the bytes of a string in a file and the string of the bytes      *)
(***************************************************************************)
\* the bytes of the code point cp
EncodeCodePoint(cp) ==
    IF cp < 128 THEN <<cp>>
    ELSE IF cp < 2048 THEN <<192 + (cp \div 64), 128 + (cp % 64)>>
    ELSE IF cp < 65536
    THEN <<224 + (cp \div 4096), 128 + ((cp \div 64) % 64), 128 + (cp % 64)>>
    ELSE <<240 + (cp \div 262144), 128 + ((cp \div 4096) % 64),
           128 + ((cp \div 64) % 64), 128 + (cp % 64)>>

\* U+FFFD, which stands for what cannot be encoded or decoded
Replacement == 65533

\* the bytes for position i of a string: a surrogate pair is one code point,
\* a lone surrogate is written as U+FFFD
EncodeUnit(s, i) ==
    IF IsHighSurrogate(s[i]) /\ IsLowSurrogate(At(s, i + 1))
    THEN EncodeCodePoint(65536 + (s[i] - 55296) * 1024 + (s[i + 1] - 56320))
    ELSE IF IsLowSurrogate(s[i]) /\ IsHighSurrogate(At(s, i - 1)) THEN <<>>
    ELSE IF IsLoneSurrogate(s, i) THEN EncodeCodePoint(Replacement)
    ELSE EncodeCodePoint(s[i])

Utf8Encode(s) ==
    Flatten(Tuple([i \in 1..Len(s) |-> EncodeUnit(s, i)], Len(s)), 1, Len(s))

IsContinuation(b) == 128 <= b /\ b <= 191

\* the second byte that may follow the lead byte b
SecondByte(b, c) ==
    CASE b = 224 -> 160 <= c /\ c <= 191
      [] b = 237 -> 128 <= c /\ c <= 159
      [] b = 240 -> 144 <= c /\ c <= 191
      [] b = 244 -> 128 <= c /\ c <= 143
      [] OTHER -> IsContinuation(c)

\* the bytes a lead byte announces: the length of its sequence
Announced(b) ==
    IF b < 128 THEN 1
    ELSE IF 194 <= b /\ b <= 223 THEN 2
    ELSE IF 224 <= b /\ b <= 239 THEN 3
    ELSE IF 240 <= b /\ b <= 244 THEN 4
    ELSE 0

\* the bytes taken by what starts at position i: a whole sequence, or the
\* longest start of one, which is decoded as one U+FFFD
Taken(bytes, i) ==
    LET n == Announced(bytes[i])
    IN  IF n <= 1 THEN 1
        ELSE IF ~SecondByte(bytes[i], At(bytes, i + 1)) THEN 1
        ELSE IF n = 2 THEN 2
        ELSE IF ~IsContinuation(At(bytes, i + 2)) THEN 2
        ELSE IF n = 3 THEN 3
        ELSE IF ~IsContinuation(At(bytes, i + 3)) THEN 3
        ELSE 4

\* a byte starts a sequence unless a lead byte up to three places before it
\* has taken it
StartsSequence(bytes, i) ==
    \/ ~IsContinuation(bytes[i])
    \/ \A d \in 1..3 :
          ~(/\ i - d >= 1
            /\ ~IsContinuation(bytes[i - d])
            /\ Taken(bytes, i - d) > d)

\* the code units decoded from the sequence that starts at position i
DecodeAt(bytes, i) ==
    LET b == bytes[i]
        n == Announced(b)
        cp == CASE n = 2 -> (b - 192) * 64 + (bytes[i + 1] - 128)
                [] n = 3 -> (b - 224) * 4096 + (bytes[i + 1] - 128) * 64
                            + (bytes[i + 2] - 128)
                [] n = 4 -> (b - 240) * 262144 + (bytes[i + 1] - 128) * 4096
                            + (bytes[i + 2] - 128) * 64 + (bytes[i + 3] - 128)
                [] OTHER -> b
    IN  IF ~StartsSequence(bytes, i) THEN <<>>
        ELSE IF n = 0 \/ Taken(bytes, i) < n THEN <<Replacement>>
        ELSE IF cp < 65536 THEN <<cp>>
        ELSE <<55296 + ((cp - 65536) \div 1024), 56320 + ((cp - 65536) % 1024)>>

\* the string of a file read as utf-8; a byte order mark stays in it
Utf8Decode(bytes) ==
    Flatten(Tuple([i \in 1..Len(bytes) |-> DecodeAt(bytes, i)], Len(bytes)), 1, Len(bytes))

(***************************************************************************)
(* JSON.parse                                                              *)
(***************************************************************************)
WhiteSpace == {32, 10, 13, 9}

\* the result of a parsing step that met an unexpected character
NoParse == [ok |-> FALSE, value |-> Undefined, next |-> 0]

Parsed(v, next) == [ok |-> TRUE, value |-> v, next |-> next]

\* the first position from i on that holds no white space
SkipWhiteSpace(raw, i) ==
    IF At(raw, i) \notin WhiteSpace THEN i
    ELSE CHOOSE j \in i..(Len(raw) + 1) :
             /\ At(raw, j) \notin WhiteSpace
             /\ \A k \in i..(j - 1) : At(raw, k) \in WhiteSpace

\* the first position from i on that holds no digit
SkipDigits(raw, i) ==
    IF ~IsDigit(At(raw, i)) THEN i
    ELSE CHOOSE j \in i..(Len(raw) + 1) :
             /\ ~IsDigit(At(raw, j))
             /\ \A k \in i..(j - 1) : IsDigit(At(raw, k))

\* the value of a hexadecimal digit, -1 for any other code unit
HexValue(c) ==
    IF IsDigit(c) THEN c - 48
    ELSE IF 65 <= c /\ c <= 70 THEN c - 55
    ELSE IF 97 <= c /\ c <= 102 THEN c - 87
    ELSE -1

\* the backslashes in a row before position j, from position i on
BackslashesBefore(raw, i, j) ==
    CHOOSE d \in 0..(j - i) :
        /\ d = j - i \/ raw[j - 1 - d] # 92
        /\ \A e \in 0..(d - 1) : raw[j - 1 - e] = 92

\* in a string that starts at i, the code unit at j follows the backslash
\* of an escape
IsEscaped(raw, i, j) == BackslashesBefore(raw, i, j) % 2 = 1

\* position j starts an escape \uXXXX
IsUnicodeEscape(raw, i, j) ==
    /\ j >= i
    /\ raw[j] = 92
    /\ ~IsEscaped(raw, i, j)
    /\ At(raw, j + 1) = 117

\* what position j of a string that starts at i adds to its value; <<-1>>
\* for a control character and for an escape that JSON does not have
StringPiece(raw, i, j) ==
    LET c == raw[j]
        e == At(raw, j + 1)
        hex == [h \in 1..4 |-> HexValue(At(raw, j + 1 + h))]
    IN  IF IsEscaped(raw, i, j) THEN <<>>
        ELSE IF \E h \in 2..5 : IsUnicodeEscape(raw, i, j - h) THEN <<>>
        ELSE IF c < 32 THEN <<-1>>
        ELSE IF c # 92 THEN <<c>>
        ELSE CASE e \in {34, 92, 47} -> <<e>>
               [] e = 98 -> <<8>>
               [] e = 102 -> <<12>>
               [] e = 110 -> <<10>>
               [] e = 114 -> <<13>>
               [] e = 116 -> <<9>>
               [] e = 117 /\ \A h \in 1..4 : hex[h] >= 0 ->
                     <<hex[1] * 4096 + hex[2] * 256 + hex[3] * 16 + hex[4]>>
               [] OTHER -> <<-1>>

\* a string whose opening quote is before position i: its code units up to
\* the closing quote, the escapes \" \\ \/ \b \f \n \r \t \uXXXX replaced by
\* what they stand for; a code unit below U+0020, any other escape and the
\* end of the text inside it are a SyntaxError
ParseString(raw, i) ==
    LET closes(j) == raw[j] = 34 /\ ~IsEscaped(raw, i, j)
        close == CHOOSE j \in i..Len(raw) :
                     closes(j) /\ \A k \in i..(j - 1) : ~closes(k)
        pieces == Tuple([j \in 1..(close - i) |-> StringPiece(raw, i, i + j - 1)],
                        close - i)
    IN  IF ~\E j \in i..Len(raw) : closes(j) THEN NoParse
        ELSE IF \E j \in 1..(close - i) : pieces[j] = <<-1>> THEN NoParse
        ELSE Parsed(<<"string", Flatten(pieces, 1, close - i)>>, close + 1)

\* the exponent of a numeral is cut off at this many digits: far beyond the
\* exponents of the doubles
MaxExponentDigits == 6

\* the number written at lo..hi of a text, a numeral of base 2^bits
RECURSIVE BigOfNumeral(_, _, _, _)
BigOfNumeral(raw, lo, hi, bits) ==
    IF lo > hi THEN <<>>
    ELSE IF lo = hi THEN BigOf(HexValue(raw[lo]))
    ELSE BigOfHalves(BigOfNumeral(raw, lo, (lo + hi) \div 2, bits),
                     BigOfNumeral(raw, ((lo + hi) \div 2) + 1, hi, bits),
                     bits * (hi - ((lo + hi) \div 2)))

\* the places of the parts of a decimal numeral: the integer digits are at
\* int..(intEnd - 1), after a point the fraction digits up to fracEnd - 1,
\* after e or E and a sign the digits of the exponent at exp..(end - 1)
NumeralExponent(raw, int, intEnd, fracEnd, exp) ==
    [int |-> int, intEnd |-> intEnd, fracEnd |-> fracEnd, exp |-> exp,
     hasFrac |-> At(raw, intEnd) = 46,
     hasExp |-> At(raw, fracEnd) \in {101, 69},
     end |-> IF At(raw, fracEnd) \in {101, 69} THEN SkipDigits(raw, exp) ELSE fracEnd]

NumeralFraction(raw, int, intEnd, fracEnd) ==
    NumeralExponent(raw, int, intEnd, fracEnd,
                    IF At(raw, fracEnd + 1) \in {43, 45} THEN fracEnd + 2 ELSE fracEnd + 1)

Numeral(raw, int, intEnd) ==
    NumeralFraction(raw, int, intEnd,
                    IF At(raw, intEnd) = 46 THEN SkipDigits(raw, intEnd + 1) ELSE intEnd)

\* the digits of the integer part and of the fraction of a numeral, the
\* highest first
LiteralDigits(raw, p, ints, fracs) ==
    Tuple([i \in 1..(ints + fracs) |->
              IF i <= ints THEN raw[p.int + i - 1] - 48 ELSE raw[p.intEnd + i - ints] - 48],
          ints + fracs)

\* the first digit of lo..hi that is not 0, hi + 1 when there is none
FirstNonzero(raw, lo, hi) ==
    IF \A j \in lo..hi : raw[j] = 48 THEN hi + 1
    ELSE CHOOSE j \in lo..hi : raw[j] # 48 /\ \A h \in lo..(j - 1) : raw[h] = 48

\* the exponent written at first..hi
ExponentValue(raw, first, hi) ==
    IF hi + 1 - first > MaxExponentDigits THEN 1000000 ELSE NumeralValue(raw, first, hi)

\* the power of 10 of a numeral
ExponentOf(raw, p) ==
    IF ~p.hasExp THEN 0
    ELSE (IF At(raw, p.fracEnd + 1) = 45 THEN -1 ELSE 1)
         * ExponentValue(raw, FirstNonzero(raw, p.exp, p.end - 1), p.end - 1)

DecimalFraction(raw, negative, p, fracs) ==
    NumberOf(negative, LiteralDigits(raw, p, p.intEnd - p.int, fracs),
             ExponentOf(raw, p) - fracs)

\* the number of a decimal literal of a text with the parts p
DecimalLiteral(raw, negative, p) ==
    Eager(p, DecimalFraction(raw, negative, p,
                             IF p.fracEnd > p.intEnd + 1 THEN p.fracEnd - p.intEnd - 1
                             ELSE 0))

ParsedNumber(raw, i, p) ==
    IF /\ p.intEnd > p.int
       /\ p.hasFrac => p.fracEnd > p.intEnd + 1
       /\ p.hasExp => p.end > p.exp
    THEN Parsed(<<"number", DecimalLiteral(raw, At(raw, i) = 45, p)>>, p.end)
    ELSE NoParse

ParseNumberFrom(raw, i, int) ==
    ParsedNumber(raw, i,
                 Numeral(raw, int, IF At(raw, int) = 48 THEN int + 1 ELSE SkipDigits(raw, int)))

\* a number: -? (0 | [1-9][0-9]*) (. [0-9]+)? ([eE] [+-]? [0-9]+)?; its
\* value is the double nearest to what the text says
ParseNumber(raw, i) == ParseNumberFrom(raw, i, IF At(raw, i) = 45 THEN i + 1 ELSE i)

\* the word true, false or null at position i
ParseLiteral(raw, i, word, v) ==
    IF i + Len(word) - 1 <= Len(raw) /\ SubSeq(raw, i, i + Len(word) - 1) = word
    THEN Parsed(v, i + Len(word))
    ELSE NoParse

TrueWord == Units("true")

FalseWord == Units("false")

NullWord == Units("null")

RECURSIVE ParseValue(_, _)
RECURSIVE ParseMembers(_, _, _)
RECURSIVE ParseElements(_, _, _)
\* after a member: the closing brace or a comma and the next member
MembersSeparated(raw, put, sep) ==
    Eager(put, IF At(raw, sep) = 125 THEN Parsed(Object(put), sep + 1)
               ELSE IF At(raw, sep) = 44
               THEN ParseMembers(raw, SkipWhiteSpace(raw, sep + 1), put)
               ELSE NoParse)

\* of two members with one key the later gives the value
MemberValued(raw, obj, key, val) ==
    IF ~val.ok THEN NoParse
    ELSE MembersSeparated(raw, Put(obj, key.value[2], val.value),
                          SkipWhiteSpace(raw, val.next))

MemberKeyed(raw, obj, key) ==
    IF key.ok /\ At(raw, SkipWhiteSpace(raw, key.next)) = 58
    THEN MemberValued(raw, obj, key, ParseValue(raw, SkipWhiteSpace(raw, key.next) + 1))
    ELSE NoParse

\* the members of an object from position i, the first character of a key,
\* to the closing brace: "key" : value (, "key" : value)*
ParseMembers(raw, i, obj) ==
    IF At(raw, i) = 34 THEN MemberKeyed(raw, obj, ParseString(raw, i + 1)) ELSE NoParse

\* after an element: the closing bracket or a comma and the next element
ElementsSeparated(raw, more, sep) ==
    Eager(more, IF At(raw, sep) = 93 THEN Parsed(ArrayOf(more), sep + 1)
                ELSE IF At(raw, sep) = 44 THEN ParseElements(raw, sep + 1, more)
                ELSE NoParse)

ElementValued(raw, elements, val) ==
    IF ~val.ok THEN NoParse
    ELSE ElementsSeparated(raw, Append(elements, val.value), SkipWhiteSpace(raw, val.next))

\* the elements of an array from position i to the closing bracket
ParseElements(raw, i, elements) == ElementValued(raw, elements, ParseValue(raw, i))

\* the value that starts at position start with the character c; inner is
\* the place of what follows a brace or a bracket
ParseValueAt(raw, start, c, inner) ==
    CASE c = 123 -> IF At(raw, inner) = 125 THEN Parsed(Object(EmptyObject), inner + 1)
                    ELSE ParseMembers(raw, inner, EmptyObject)
      [] c = 91 -> IF At(raw, inner) = 93 THEN Parsed(ArrayOf(<<>>), inner + 1)
                   ELSE ParseElements(raw, inner, <<>>)
      [] c = 34 -> ParseString(raw, start + 1)
      [] c = 116 -> ParseLiteral(raw, start, TrueWord, JsTrue)
      [] c = 102 -> ParseLiteral(raw, start, FalseWord, JsFalse)
      [] c = 110 -> ParseLiteral(raw, start, NullWord, Null)
      [] c = 45 \/ IsDigit(c) -> ParseNumber(raw, start)
      [] OTHER -> NoParse

ParseValueFrom(raw, start) ==
    ParseValueAt(raw, start, At(raw, start), SkipWhiteSpace(raw, start + 1))

\* the JSON value that starts at or after position i
ParseValue(raw, i) == ParseValueFrom(raw, SkipWhiteSpace(raw, i))

JSONparsed(raw, parsed) ==
    IF parsed.ok /\ SkipWhiteSpace(raw, parsed.next) = Len(raw) + 1
    THEN [threw |-> FALSE, value |-> parsed.value]
    ELSE [threw |-> TRUE, value |-> Undefined]

\* JSON.parse(raw): the value of the text, or a SyntaxError when the text is
\* not one JSON value with white space around it
JSONparse(raw) == Eager(raw, JSONparsed(raw, ParseValue(raw, 1)))

(***************************************************************************)
(* Conversions: ToString, ToNumber and the comparisons of getUser          *)
(***************************************************************************)
RECURSIVE ToStringOf(_)
\* an element of an array in Array.prototype.join: nothing for null and
\* undefined
JoinPiece(elements, i) ==
    (IF i > 1 THEN <<44>> ELSE <<>>) \o
    (IF elements[i][1] \in {"null", "undefined"} THEN <<>> ELSE ToStringOf(elements[i]))

\* ToString(v): an array is joined with commas, any other object is
\* [object Object]
ToStringOf(v) ==
    CASE v[1] = "string" -> v[2]
      [] v[1] = "object" -> Units("[object Object]")
      [] v[1] = "array" ->
            Flatten(Tuple([i \in 1..Len(v[2]) |-> JoinPiece(v[2], i)], Len(v[2])),
                    1, Len(v[2]))
      [] OTHER -> Units(v[2])

\* the white space and line terminators that StringToNumber strips
StrWhiteSpace ==
    {9, 10, 11, 12, 13, 32, 160, 5760, 8232, 8233, 8239, 8287, 12288, 65279}
        \cup 8192..8202

InfinityWord == Units("Infinity")

\* the base of a literal 0x.., 0o.., 0b.. that fills lo..hi, 10 for any other
RadixOf(s, lo, hi) ==
    IF At(s, lo) # 48 \/ hi < lo + 2 THEN 10
    ELSE CASE At(s, lo + 1) \in {120, 88} -> 16
           [] At(s, lo + 1) \in {111, 79} -> 8
           [] At(s, lo + 1) \in {98, 66} -> 2
           [] OTHER -> 10

\* the number of the integer big
NumberOfBig(big) ==
    IF Len(big) = 0 THEN "0" ELSE NumberOfDouble(FALSE, RoundToDouble(big, 0))

\* the bits of a digit of a numeral of the base radix
BitsOf(radix) == CASE radix = 16 -> 4 [] radix = 8 -> 3 [] OTHER -> 1

\* the number of a decimal literal that fills a text up to hi
DecimalToNumber(s, hi, negative, p) ==
    IF /\ p.end = hi + 1
       /\ p.intEnd > p.int \/ (p.hasFrac /\ p.fracEnd > p.intEnd + 1)
       /\ p.hasExp => p.end > p.exp
    THEN DecimalLiteral(s, negative, p)
    ELSE "NaN"

\* the number of what fills lo..hi of a text: int is the place after a sign
SignedToNumber(s, lo, hi, int, radix) ==
    IF SubSeq(s, int, hi) = InfinityWord
    THEN (IF s[lo] = 45 THEN "-Infinity" ELSE "Infinity")
    ELSE IF radix # 10
    THEN (IF \A i \in (lo + 2)..hi : HexValue(s[i]) >= 0 /\ HexValue(s[i]) < radix
          THEN NumberOfBig(BigOfNumeral(s, lo + 2, hi, BitsOf(radix)))
          ELSE "NaN")
    ELSE DecimalToNumber(s, hi, s[lo] = 45, Numeral(s, int, SkipDigits(s, int)))

TrimmedToNumber(s, lo, hi) ==
    SignedToNumber(s, lo, hi, IF s[lo] \in {43, 45} THEN lo + 1 ELSE lo, RadixOf(s, lo, hi))

\* StringToNumber(s): 0 for white space alone, the number of a decimal
\* literal with an optional sign, of Infinity with an optional sign or of a
\* binary, octal or hexadecimal integer; NaN for any other string
StringToNumber(s) ==
    IF \A i \in 1..Len(s) : s[i] \in StrWhiteSpace THEN "0"
    ELSE TrimmedToNumber(s,
             CHOOSE i \in 1..Len(s) :
                 s[i] \notin StrWhiteSpace /\ \A j \in 1..(i - 1) : s[j] \in StrWhiteSpace,
             CHOOSE i \in 1..Len(s) :
                 s[i] \notin StrWhiteSpace /\ \A j \in (i + 1)..Len(s) : s[j] \in StrWhiteSpace)

\* ToNumber(v): the number a value is compared as
ToNumber(v) ==
    CASE v[1] = "number" -> v[2]
      [] v[1] = "boolean" -> IF v[2] = "true" THEN "1" ELSE "0"
      [] v[1] = "null" -> "0"
      [] v[1] = "undefined" -> "NaN"
      [] OTHER -> StringToNumber(ToStringOf(v))

\* the place of the character c in a text of a number, 0 when it has none
PlaceOf(text, c) ==
    IF \E i \in 1..Len(text) : SubSeq(text, i, i) = c
    THEN CHOOSE i \in 1..Len(text) :
             SubSeq(text, i, i) = c /\ \A j \in 1..(i - 1) : SubSeq(text, j, j) # c
    ELSE 0

\* index >= number for an integer index that is not negative and the text
\* of a number: false for NaN
IndexAtLeast(index, text) ==
    LET point == PlaceOf(text, ".")
        ints == IF point = 0 THEN Len(text) ELSE point - 1
        whole == Tuple([i \in 1..ints |-> CodeOf(SubSeq(text, ints + 1 - i, ints + 1 - i)) - 48],
                       ints)
        compared == BigCompare(IF whole = <<0>> THEN <<>> ELSE whole, BigOf(index))
    IN  IF text \in {"NaN", "Infinity"} THEN FALSE
        ELSE IF SubSeq(text, 1, 1) = "-" THEN TRUE
        ELSE IF PlaceOf(text, "e") # 0
        THEN PlaceOf(text, "+") = 0 /\ index >= 1
        ELSE compared < 0 \/ (compared = 0 /\ point = 0)

\* index >= v of JavaScript for an integer index that is not negative
GreaterOrEqual(index, v) == IndexAtLeast(index, ToNumber(v))

(***************************************************************************)
(* The records of the outcome store                                        *)
(***************************************************************************)
\* the key of the login test
LoginSuccess == Units("loginSuccess")

\* property names used by the callers: the key of the login test and one more
Keys == {LoginSuccess, Units("user")}

JsStringTrue == String("true")

Values == {JsTrue, JsFalse, JsStringTrue}

\* the records the callers pass to writeTestData: every object over Keys
Records ==
    {obj \in UNION {[1..n -> Keys \X Values] : n \in 0..Cardinality(Keys)} :
        \A i, j \in DOMAIN obj : obj[i][1] = obj[j][1] => i = j}

\* what the login test stores
LoginOutcome == <<<<LoginSuccess, JsTrue>>>>

\* the records whose write is cut short by the death of the process: the
\* record of the login test, alone and beside a second property
CrashedRecords == {LoginOutcome, Append(LoginOutcome, <<Units("user"), JsStringTrue>>)}

(***************************************************************************)
(* The file system calls of the outcome helper                             *)
(***************************************************************************)
\* fs.existsSync(tempDir)
ExistsTempDir(d) == d.tempDir

\* fs.existsSync(dataPath)
ExistsDataPath(d) == d.tempDir /\ d.file

\* fs.mkdirSync(tempDir, { recursive: true }): no error when it already exists
MkdirRecursive(d) == [d EXCEPT !.tempDir = TRUE]

\* fs.openSync(dataPath, "w"): creates the file or truncates it to length 0
OpenTruncate(d) == [d EXCEPT !.file = TRUE, !.content = <<>>]

\* fs.writeSync(fd, bytes, 0, length, 0): writes the bytes from position 0 on
\* and leaves the bytes that lie beyond their end
WriteAtStart(d, bytes) ==
    [d EXCEPT !.content =
        IF Len(@) > Len(bytes) THEN bytes \o SubSeq(@, Len(bytes) + 1, Len(@))
        ELSE bytes]

\* fs.writeFileSync(dataPath, data, { flag: "a" }): appends to the file
WriteFileSync_append(d, data) ==
    IF data[1] # "string" THEN [disk |-> d, threw |-> TRUE]
    ELSE [disk |-> [d EXCEPT !.file = TRUE,
                             !.content = IF d.file THEN @ \o Utf8Encode(data[2])
                                         ELSE Utf8Encode(data[2])],
          threw |-> FALSE]

\* fs.writeFileSync(dataPath, data): a string is encoded as utf-8, the file is
\* opened with flag "w", written and closed; data that is no string (the
\* undefined of JSON.stringify(undefined)) is an ERR_INVALID_ARG_TYPE, thrown
\* before the file is opened
WriteFileSync(d, data) ==
    IF data[1] # "string" THEN [disk |-> d, threw |-> TRUE]
    ELSE [disk |-> WriteAtStart(OpenTruncate(d), Utf8Encode(data[2])), threw |-> FALSE]

\* the directory part of writeTestData
EnsureTempDir(d) == IF ~ExistsTempDir(d) THEN MkdirRecursive(d) ELSE d

\* writeTestData(data) for a value data: the disk after the call and whether
\* the call threw
writeTestData(d, data) == WriteFileSync(EnsureTempDir(d), JSONstringify(data))

\* the bytes of the file of the record data: JSON.stringify(data, null, 2)
\* as utf-8
JsonBytes(data) == Utf8Encode(JSONstringify(Object(data))[2])

\* fs.readFileSync(dataPath, "utf-8"): the text, or ENOENT when there is no file
ReadFileSync(d) ==
    IF ExistsDataPath(d) THEN [threw |-> FALSE, text |-> Utf8Decode(d.content)]
    ELSE [threw |-> TRUE, text |-> <<>>]

\* return JSON.parse(raw) for what readFileSync gave
ParseRaw(raw) ==
    IF raw.threw THEN [threw |-> TRUE, value |-> Undefined] ELSE JSONparse(raw.text)

\* readTestData without its existsSync guard
readTestData_unguarded(d) == ParseRaw(ReadFileSync(d))

\* readTestData(): what the call returns, or that it threw
readTestData(d) ==
    IF ~ExistsDataPath(d) THEN [threw |-> FALSE, value |-> Object(EmptyObject)]
    ELSE ParseRaw(ReadFileSync(d))

\* the state of the disk after a fresh checkout: no temp directory
FreshDisk == [tempDir |-> FALSE, file |-> FALSE, content |-> <<>>]

\* a process that dies inside writeFileSync of a text, after the file was
\* opened and the first n of its bytes reached the disk
CrashedWrite(d, bytes, n) ==
    WriteAtStart(OpenTruncate(EnsureTempDir(d)), SubSeq(bytes, 1, n))

\* a global teardown that leaves the files of temp/ in place
CleanTempDir_keepsFiles(d) == d

\* global-teardown.js, cleaning of temp/: every regular file in it is unlinked
CleanTempDir(d) ==
    IF ExistsTempDir(d) THEN [d EXCEPT !.file = FALSE, !.content = <<>>] ELSE d

(***************************************************************************)
(* The run: configuration, global setup and the Login Flow tests           *)
(***************************************************************************)
\* number of projects of the configuration that run the Login Flow tests
NumProjects == 2

\* workers when the configuration leaves them to Playwright (parallel, no CI)
DefaultWorkers == 2

\* workers of a parallel run on CI
CIWorkers == 2

\* retries of a failed test on CI
CIRetries == 2

Projects == 1..NumProjects

\* the tests of describe("Login Flow") that use the outcome store, in the order
\* they are declared ("Login with invalid credentials", like the tests of the
\* other files, neither reads nor writes it)
TestNames == <<"Login with valid credentials", "Logout after Login">>

LoginValid == 1
Logout == 2

\* a test of the run: <<project, index in TestNames>>
TestIds == Projects \X DOMAIN TestNames

\* the order in which the runner hands the tests to its workers
Before(t, u) == t[1] < u[1] \/ (t[1] = u[1] /\ t[2] < u[2])

\* the statements of global-setup.js, in order
BootSteps ==
    <<"launch", "newContext", "newPage", "goto", "clickLoginLink", "fillEmail",
      "fillPassword", "clickSubmit", "mkdirStorageDir", "storageState", "close">>

NotRead == <<"none", "not read">>
ReadThrew == <<"error", "SyntaxError">>
ReadOfNull == <<"error", "TypeError">>

\* a test before its first attempt; attempt counts the retries of a test that
\* has not finished, seen is the loginSuccess the test read, ran whether the
\* part after test.skip() was entered, context the session its browser context
\* started from
QueuedTest ==
    [pc |-> "queued", attempt |-> 0, seen |-> NotRead, ran |-> FALSE, context |-> "none"]

\* the global setup before it runs; runs counts its executions in this run,
\* error names the statement that threw, session is the browser context,
\* response the answer of the site to the login form, captured the session
\* the context was in when storageState() saved it
IdleBoot ==
    [pc |-> 0, runs |-> 0, error |-> "none", session |-> "none",
     response |-> "none", captured |-> "none"]

\* settings.executionMode and whether process.env.CI is set
Envs == [executionMode : {"parallel", "sequential"}, ci : BOOLEAN]

\* the first run after a checkout; startedEmpty: the outcome store was empty
\* when the run began
FirstRun == [phase |-> "globalSetup", startedEmpty |-> TRUE]

runVars == <<env, run, boot, snapshot, tests>>

\* the run variables of a specification that is about the store alone
NoRun ==
    /\ env = [executionMode |-> "sequential", ci |-> FALSE]
    /\ run = FirstRun
    /\ boot = IdleBoot
    /\ snapshot = "absent"
    /\ tests = [t \in TestIds |-> QueuedTest]

(***************************************************************************)
(* The helpers of a test: fixtures, test data manager, retry               *)
(***************************************************************************)
\* the fixtures of a test that has not been taken by the worker: phase of the
\* lifecycle, decl the fixtures the test function names, todo the fixtures
\* still to set up, live the fixtures set up (in that order), torn the
\* teardown calls made, threw the fixture whose setup threw, error what
\* failed the test, entered whether the test body was entered, saved the keys
\* the test stored in the test data manager, found the keys it found there
PendingFixtures ==
    [phase |-> "PENDING", decl |-> <<>>, todo |-> <<>>, live |-> <<>>, torn |-> <<>>,
     threw |-> "none", error |-> "none", entered |-> FALSE,
     saved |-> {}, found |-> {}]

\* the test data files the callers name: testData/users.json, products.json
FileNames == {"users", "products"}

\* the requests issued on one APIHelper without awaiting (Promise.all)
MaxCalls == 2

\* new TestDataManager(): this.cache = new Map() (cached: its keys, data:
\* their values), this.generatedData = new Map()
NewTestDataManager ==
    [generatedData |-> {}, cached |-> {}, data |-> [f \in FileNames |-> Undefined]]

\* no retry helper is being called; throws: what the invocations of the
\* action throw before one returns, fails their number, i the loop variable,
\* calls the invocations of the action, waits the calls of waitForTimeout and
\* waited their sum, caught the attempt whose error the catch block holds,
\* thrown the attempt whose error left the helper, typeError that a
\* TypeError of the catch block left it, suppressed the attempts whose
\* errors did not, closes the call of waitForTimeout that finds the page
\* closed (0 when the page stays open), waitError that its error left the
\* helper
IdleRetry ==
    [pc |-> "idle", helper |-> "none", maxRetries |-> 0, delay |-> 0, throws |-> <<>>,
     fails |-> 0, closes |-> 0, i |-> 0, calls |-> 0, waits |-> 0, waited |-> 0,
     caught |-> 0, thrown |-> 0, typeError |-> FALSE, waitError |-> FALSE,
     suppressed |-> {}, result |-> "pending"]

\* the keys of settings.json and the values the model gives them; "undefined"
\* is a key the object does not have
SettingValues ==
    [executionMode : {"undefined", "parallel", "sequential"},
     browserMode : {"undefined", "headless", "headed"},
     environment : {"undefined", "staging", "production"}]

\* {}: the object without any of the three keys
NoSettings ==
    [executionMode |-> "undefined", browserMode |-> "undefined",
     environment |-> "undefined"]

\* what settings.json holds: the file is missing, is not JSON ("invalid"),
\* is the JSON text null, or is the JSON text of an object
SettingsFiles ==
    {[kind |-> k, object |-> NoSettings] : k \in {"missing", "invalid", "null"}}
        \cup {[kind |-> "object", object |-> o] : o \in SettingValues}

\* const defaultSettings = { executionMode: "parallel", ... }
defaultSettings ==
    [executionMode |-> "parallel", browserMode |-> "headless",
     environment |-> "staging"]

\* no process has read or written settings.json, which does not exist; by:
\* the code that loaded last, threw: the load threw, settings: what it
\* loaded, saved: how the last saveSettings ended, defaults: the object the
\* constant defaultSettings of setConfig.js refers to in the running process
IdleCfg ==
    [file |-> [kind |-> "missing", object |-> NoSettings], by |-> "none",
     threw |-> FALSE, settings |-> NoSettings, saved |-> "none",
     defaults |-> defaultSettings]

\* this.lastRequest = null
NoRequest == [method |-> "null", url |-> "null"]

\* a call of get/post/put/patch/delete that has not been made; response: the
\* status of the HTTP response, 0 when none was received; status, request
\* and success: fields of the object the call returned or threw
IdleCall ==
    [pc |-> "idle", method |-> "none", url |-> "none", response |-> 0,
     status |-> 0, request |-> NoRequest, success |-> FALSE]

\* new APIHelper(baseURL) and no call made on it
IdleApi == [lastRequest |-> NoRequest, calls |-> [c \in 1..MaxCalls |-> IdleCall]]

\* the authenticatedUser or adminUser fixture before its function is called
\* (fixture: which of the two the test names); url: what
\* page.url() returns, login: how apiHelper.post('/auth/login') ended,
\* bearer: setBearerToken was called, cookie: the auth_token cookie is in
\* the context, ui: the login form led to /dashboard, uses: the values
\* passed to use() in call order, site: the use() the fixture is waiting in,
\* body: how the test body ended, error: what left the fixture function,
\* user: what testDataManager.getUser returned
IdleAuth ==
    [pc |-> "idle", fixture |-> "none", url |-> "about:blank", login |-> "none", bearer |-> FALSE,
     cookie |-> FALSE, ui |-> FALSE, uses |-> <<>>, site |-> "none",
     body |-> "none", error |-> "none", user |-> Undefined]

\* a working directory without testData/ (the repository has none) and no
\* call made on the TestDataManager; dir: testData/ exists, entry: what
\* testData/<name>.json is (nothing, a file, a directory), text: the content
\* of the files, op, file, threw and ret: the last call, its file and how
\* it ended
EmptyDataDir ==
    [dir |-> FALSE, entry |-> [f \in FileNames |-> "none"],
     text |-> [f \in FileNames |-> <<>>], op |-> "none",
     file |-> "none", threw |-> FALSE, ret |-> Undefined]

\* a user of testData/users.json
UserRecord(i) ==
    Object(<<<<Units("email"), String("user" \o ToString(i) \o "@site.invalid")>>,
             <<Units("password"), String("secret")>>>>)

\* the bytes of a users.json with n valid users
UsersFile(n) ==
    Utf8Encode(JSONstringify(Object(<<<<Units("validUsers"),
        ArrayOf(Tuple([i \in 1..n |-> UserRecord(i)], n))>>>>))[2])

\* a working directory with testData/users.json
TestDataDir(entry, text) ==
    [EmptyDataDir EXCEPT !.dir = TRUE, !.entry["users"] = entry, !.text["users"] = text]

\* the working directories a worker is started in: without testData/, with
\* a users.json of no, one or two valid users, with a directory of that name
Checkouts ==
    {EmptyDataDir, TestDataDir("directory", <<>>)}
        \cup {TestDataDir("file", UsersFile(n)) : n \in 0..2}

\* fs.existsSync(filePath) for a file of testData/
ExistsTestData(d, f) == d.dir /\ d.entry[f] # "none"

\* the end of loadTestData for a file that was read: a SyntaxError of
\* JSON.parse is thrown again, a parsed value is put in the cache and returned
CacheParsed(t, f, parsed) ==
    IF parsed.threw THEN [threw |-> TRUE, value |-> Undefined, tdm |-> t]
    ELSE [threw |-> FALSE, value |-> parsed.value,
          tdm |-> [t EXCEPT !.cached = @ \cup {f}, !.data[f] = parsed.value]]

\* loadTestData(fileName) on the manager t with the files d: the cached
\* value when the cache has the key; otherwise the parsed file, which is put
\* in the cache; a missing file, a directory of that name (EISDIR) and a
\* parse error are thrown; tdm is the manager after the call
loadTestData(t, d, f) ==
    IF f \in t.cached THEN [threw |-> FALSE, value |-> t.data[f], tdm |-> t]
    ELSE IF ~ExistsTestData(d, f) \/ d.entry[f] = "directory"
    THEN [threw |-> TRUE, value |-> Undefined, tdm |-> t]
    ELSE CacheParsed(t, f, JSONparse(Utf8Decode(d.text[f])))

\* the property of users.json that getUser(type, ...) reads
UserType(type) ==
    CASE type = "valid" -> Units("validUsers")
      [] type = "invalid" -> Units("invalidUsers")
      [] type = "test" -> Units("testUsers")
      [] type = "bulk" -> Units("bulkUsers")
      [] OTHER -> Units("validUsers")

\* v.length for a value that is neither null nor undefined: the length of
\* an array or a string, the property "length" of an object, else undefined
LengthOf(v) == Member(v, LengthKey)

\* v[index]
ElementAt(v, index) == Member(v, Units(ToString(index)))

\* the checks of getUser on list = users[userType]: "No users found" for a
\* falsy list and for list.length === 0, "index out of range" for
\* index >= list.length, else a copy of list[index]
UserAt(list, index, t) ==
    IF ~Truthy(list) \/ LengthOf(list) = <<"number", "0">>
    THEN [threw |-> TRUE, value |-> Undefined, tdm |-> t]
    ELSE IF GreaterOrEqual(index, LengthOf(list))
    THEN [threw |-> TRUE, value |-> Undefined, tdm |-> t]
    ELSE [threw |-> FALSE, value |-> ElementAt(list, index), tdm |-> t]

\* getUser after loadTestData('users') returned users: the error of the
\* load, the TypeError of reading a property of null, or what the checks
\* of users[userType] give
UserOf(users, userType, index) ==
    IF users.threw \/ MemberThrows(users.value)
    THEN [threw |-> TRUE, value |-> Undefined, tdm |-> users.tdm]
    ELSE UserAt(Member(users.value, userType), index, users.tdm)

\* getUser(type, index) on the manager t with the files d
getUser(t, d, type, index) == UserOf(loadTestData(t, d, "users"), UserType(type), index)

unitVars == <<cfg, api, auth, dataDir>>

helperVars == <<fx, tdm, retry>>

\* a worker that has not taken a test, and no helper called
NoWorker ==
    /\ fx = PendingFixtures
    /\ tdm = NewTestDataManager
    /\ retry = IdleRetry
    /\ cfg = IdleCfg
    /\ api = IdleApi
    /\ auth = IdleAuth

\* the helper variables of a specification that is about something else
NoHelpers == NoWorker /\ dataDir = EmptyDataDir

(***************************************************************************)
(* Sequential use of the outcome store: one caller at a time               *)
(***************************************************************************)
\* fn: the call, data: its argument, ret: what it returned, before: the disk
\* it found; for a read, prev is the call that came directly before it
NoPrev == [fn |-> "none", data |-> EmptyObject, before |-> FreshDisk]

NoCall ==
    [fn |-> "none", data |-> EmptyObject, ret |-> [threw |-> FALSE, value |-> Undefined],
     before |-> FreshDisk, prev |-> NoPrev]

Procs == {1, 2}

IdleWriter == [pc |-> "idle", data |-> EmptyObject, sawDir |-> FALSE, threw |-> FALSE]

Returned(fn, data, ret) ==
    [fn |-> fn, data |-> data, ret |-> ret, before |-> disk,
     prev |-> IF fn = "readTestData"
              THEN [fn |-> call.fn, data |-> call.data, before |-> call.before]
              ELSE NoPrev]

StoreInit ==
    /\ disk = FreshDisk
    /\ call = NoCall
    /\ writers = [p \in Procs |-> IdleWriter]
    /\ NoRun
    /\ NoHelpers

\* a test calls writeTestData(data)
Wrote(data, done) ==
    /\ disk' = done.disk
    /\ call' = Returned("writeTestData", data, [threw |-> done.threw, value |-> Undefined])
    /\ UNCHANGED <<unitVars, writers, runVars, helperVars>>

Write(data) == Wrote(data, writeTestData(disk, Object(data)))

\* a test calls readTestData()
Read ==
    /\ call' = Returned("readTestData", EmptyObject, readTestData(disk))
    /\ UNCHANGED <<unitVars, disk, writers, runVars, helperVars>>

\* the process is killed in the middle of writeTestData(data)
Crash(bytes, n) ==
    /\ disk' = CrashedWrite(disk, bytes, n)
    /\ call' = [NoCall EXCEPT !.fn = "crash"]
    /\ UNCHANGED <<unitVars, writers, runVars, helperVars>>

\* at any byte of the text before the last
CrashDuring(bytes) == \E n \in 0..(Len(bytes) - 1) : Crash(bytes, n)

\* the global teardown at the end of a run removes the outcome file
Clean ==
    /\ ExistsTempDir(disk)
    /\ disk' = CleanTempDir(disk)
    /\ call' = Returned("globalTeardown", EmptyObject, [threw |-> FALSE, value |-> Undefined])
    /\ UNCHANGED <<unitVars, writers, runVars, helperVars>>

StoreNext ==
    \/ \E data \in Records : Write(data)
    \/ Read
    \/ \E data \in CrashedRecords : CrashDuring(JsonBytes(data))
    \/ Clean

vars ==
    <<disk, call, writers, env, run, boot, snapshot, tests, fx, tdm, retry,
      cfg, api, auth, dataDir>>

SpecStore == StoreInit /\ [][StoreNext]_vars

\* the properties of the object on disk (none when the file is absent,
\* unreadable or holds another value)
OnDisk(d) ==
    LET testData == readTestData(d)
    IN  IF ~testData.threw /\ testData.value[1] = "object" THEN testData.value[2]
        ELSE EmptyObject

ReturnedEmpty(ret) == ~ret.threw /\ ret.value = Object(EmptyObject)

\* C1: a readTestData() that directly follows writeTestData(r) returns a
\* mapping in which every key of r has the value just written, whatever was
\* written under that key before
ReadAfterWriteReturnsWritten ==
    (call.fn = "readTestData" /\ call.prev.fn = "writeTestData") =>
        /\ ~call.ret.threw
        /\ \A k \in OwnKeys(call.prev.data) :
              Member(call.ret.value, k) = Get(call.prev.data, k)

\* a read after a write that replaced an older, different value of a key
ReadAfterRepeatedWrite ==
    /\ call.fn = "readTestData"
    /\ call.prev.fn = "writeTestData"
    /\ \E k \in OwnKeys(call.prev.data) :
          /\ k \in OwnKeys(OnDisk(call.prev.before))
          /\ Get(OnDisk(call.prev.before), k) # Get(call.prev.data, k)
          /\ Member(call.ret.value, k) = Get(call.prev.data, k)

\* C2: writeTestData(record) merges: a key that was on disk before the write
\* and is not a key of record keeps its value
WriteKeepsOtherKeys ==
    call.fn = "writeTestData" =>
        \A k \in OwnKeys(OnDisk(call.before)) \ OwnKeys(call.data) :
            Get(OnDisk(disk), k) = Get(OnDisk(call.before), k)

\* C3: readTestData() with no outcome file (with or without the temp
\* directory) returns an empty mapping, does not throw and leaves the disk as
\* it was
ReadOfMissingFileIsEmpty ==
    (call.fn = "readTestData" /\ ~ExistsDataPath(call.before)) =>
        /\ ReturnedEmpty(call.ret)
        /\ disk = call.before

\* a read that found no temp directory at all
ReadWithoutTempDir ==
    /\ call.fn = "readTestData"
    /\ ~ExistsTempDir(call.before)
    /\ ReturnedEmpty(call.ret)

\* C4: readTestData() of a file that is not valid JSON returns an empty
\* mapping and does not throw
ReadOfCorruptFileIsEmpty ==
    (/\ call.fn = "readTestData"
     /\ ExistsDataPath(call.before)
     /\ JSONparse(Utf8Decode(call.before.content)).threw) =>
        ReturnedEmpty(call.ret)

(***************************************************************************)
(* Two processes calling writeTestData at the same time                    *)
(***************************************************************************)
\* fs.mkdirSync throws EEXIST for an existing directory unless recursive
MkdirSyncThrows(d, recursive) == ~recursive /\ ExistsTempDir(d)

\* the records of the racing writers
RaceRecords == {r \in Records : \A i \in DOMAIN r : r[i][2] = JsTrue}

\* process p enters writeTestData(data)
Begin(p, data) ==
    /\ writers[p].pc = "idle"
    /\ writers' = [writers EXCEPT ![p].pc = "existsSync", ![p].data = data]
    /\ UNCHANGED <<unitVars, disk, call, runVars, helperVars>>

\* if (!fs.existsSync(tempDir))
CheckDir(p) ==
    /\ writers[p].pc = "existsSync"
    /\ writers' = [writers EXCEPT ![p].sawDir = ExistsTempDir(disk),
                                  ![p].pc = IF ExistsTempDir(disk) THEN "open" ELSE "mkdir"]
    /\ UNCHANGED <<unitVars, disk, call, runVars, helperVars>>

\* fs.mkdirSync(tempDir, { recursive: true })
Mkdir(p) ==
    /\ writers[p].pc = "mkdir"
    /\ writers' = [writers EXCEPT ![p].threw = MkdirSyncThrows(disk, TRUE),
                                  ![p].pc = IF MkdirSyncThrows(disk, TRUE) THEN "threw" ELSE "open"]
    /\ disk' = MkdirRecursive(disk)
    /\ UNCHANGED <<unitVars, call, runVars, helperVars>>

\* writeFileSync, first half: the file is opened and truncated
Open(p) ==
    /\ writers[p].pc = "open"
    /\ writers' = [writers EXCEPT ![p].pc = "write"]
    /\ disk' = OpenTruncate(disk)
    /\ UNCHANGED <<unitVars, call, runVars, helperVars>>

\* writeFileSync, second half: the text is written at position 0; the call returns
WriteText(p) ==
    /\ writers[p].pc = "write"
    /\ writers' = [writers EXCEPT ![p].pc = "done"]
    /\ disk' = WriteAtStart(disk, JsonBytes(writers[p].data))
    /\ call' = Returned("writeTestData", writers[p].data, [threw |-> FALSE, value |-> Undefined])
    /\ UNCHANGED <<unitVars, runVars, helperVars>>

\* after both calls have finished, the store is read
ReadAfterRace ==
    /\ \A p \in Procs : writers[p].pc \in {"done", "threw"}
    /\ call.fn = "writeTestData"
    /\ call' = Returned("readTestData", EmptyObject, readTestData(disk))
    /\ UNCHANGED <<unitVars, disk, writers, runVars, helperVars>>

RaceNext ==
    \/ \E p \in Procs : \E data \in RaceRecords : Begin(p, data)
    \/ \E p \in Procs : CheckDir(p)
    \/ \E p \in Procs : Mkdir(p)
    \/ \E p \in Procs : Open(p)
    \/ \E p \in Procs : WriteText(p)
    \/ ReadAfterRace

SpecRace == StoreInit /\ [][RaceNext]_vars

\* C8: with two unsynchronised writers the last write wins: once both calls
\* have finished, readTestData() returns the record of the write that came
\* last, and neither writer got an error
LastWriteWins ==
    (call.fn = "readTestData" /\ \A p \in Procs : writers[p].pc # "idle") =>
        /\ \A p \in Procs : ~writers[p].threw
        /\ ~call.ret.threw
        /\ call.ret.value = Object(call.prev.data)

(***************************************************************************)
(* The runner configuration (playwright.config.js)                         *)
(***************************************************************************)
\* isParallel with any setting taken for "parallel"
IsParallel_always(settings) == TRUE

\* const isParallel = settings.executionMode === "parallel"
IsParallel(settings) == settings.executionMode = "parallel"

\* fullyParallel: isParallel
FullyParallel == IsParallel(env)

\* workers: isParallel ? process.env.CI ? 2 : undefined : 1
Workers ==
    IF IsParallel(env) THEN (IF env.ci THEN CIWorkers ELSE DefaultWorkers) ELSE 1

\* retries: process.env.CI ? 2 : 0
Retries == IF env.ci THEN CIRetries ELSE 0

\* a configuration without the globalSetup entry
HasGlobalSetup_missing == FALSE

\* globalSetup: require.resolve('./global-setup.js')
HasGlobalSetup == TRUE

\* a global setup that catches its errors, as the global teardown does
BootstrapCatches_all == TRUE

\* global-setup.js has no try/catch: what a statement throws rejects the hook
BootstrapCatches == FALSE

(***************************************************************************)
(* Global setup: log in once and save the session                          *)
(***************************************************************************)
\* the browser session after a statement of the global setup has completed
SessionAfter(step, session) ==
    CASE step = "newContext" -> "anonymous"
      [] step = "clickSubmit" -> "submitted"
      [] step = "close" -> "closed"
      [] OTHER -> session

\* context.storageState({ path }): the cookies the context holds at that moment
Capture(session) == IF session = "authenticated" THEN "authenticated" ELSE "anonymous"

BootDone == boot.pc = Len(BootSteps)

\* the next statement of the global setup completes
BootStepCompletes ==
    /\ run.phase = "globalSetup"
    /\ HasGlobalSetup
    /\ boot.error = "none"
    /\ boot.pc < Len(BootSteps)
    /\ LET step == BootSteps[boot.pc + 1]
       IN  /\ boot' = [boot EXCEPT !.pc = @ + 1,
                                   !.runs = IF boot.pc = 0 THEN @ + 1 ELSE @,
                                   !.session = SessionAfter(step, @),
                                   !.captured = IF step = "storageState"
                                                THEN boot.session ELSE @]
           /\ snapshot' = IF step = "storageState" THEN Capture(boot.session) ELSE snapshot
    /\ UNCHANGED <<unitVars, disk, call, writers, helperVars, env, run, tests>>

\* the next statement of the global setup throws (selector not found, timeout,
\* file system error): the hook rejects and the runner ends the run
BootStepThrows ==
    /\ run.phase = "globalSetup"
    /\ HasGlobalSetup
    /\ boot.error = "none"
    /\ boot.pc < Len(BootSteps)
    /\ boot' = [boot EXCEPT !.error = BootSteps[boot.pc + 1],
                            !.runs = IF boot.pc = 0 THEN @ + 1 ELSE @]
    /\ run' = [run EXCEPT !.phase = IF BootstrapCatches THEN "tests" ELSE "aborted"]
    /\ UNCHANGED <<unitVars, disk, call, writers, helperVars, env, snapshot, tests>>

\* the site answers the submitted login form: it accepts LOGIN_EMAIL and
\* LOGIN_PASSWORD and sets the session cookie, or rejects them
ServerResponds(accepted) ==
    /\ run.phase = "globalSetup"
    /\ boot.session = "submitted"
    /\ boot' = [boot EXCEPT !.session = IF accepted THEN "authenticated" ELSE "anonymous",
                            !.response = IF accepted THEN "accepted" ELSE "rejected"]
    /\ UNCHANGED <<unitVars, disk, call, writers, helperVars, env, run, snapshot, tests>>

\* the global setup has returned (or there is none): the runner starts the tests
BeginTests ==
    /\ run.phase = "globalSetup"
    /\ BootDone \/ ~HasGlobalSetup
    /\ run' = [run EXCEPT !.phase = "tests"]
    /\ UNCHANGED <<unitVars, disk, call, writers, helperVars, env, boot, snapshot, tests>>

(***************************************************************************)
(* The tests of describe("Login Flow")                                     *)
(***************************************************************************)
Terminal(t) == tests[t].pc \in {"passed", "failed", "skipped"}

Started(t) == tests[t].pc # "queued" \/ tests[t].attempt > 0

InWorker(t) == tests[t].pc # "queued" /\ ~Terminal(t)

\* the condition of test.skip(): the logout test inverted
SkipLogout_inverted(testData) == Truthy(Member(testData, LoginSuccess))

\* test.skip(!testData.loginSuccess, ...)
SkipLogout(testData) == ~Truthy(Member(testData, LoginSuccess))

\* the attempt of test t ends with an error: it is retried while retries are left
Failed(t, seen) ==
    IF tests[t].attempt < Retries
    THEN [tests EXCEPT ![t] = [QueuedTest EXCEPT !.attempt = tests[t].attempt + 1]]
    ELSE [tests EXCEPT ![t].pc = "failed", ![t].seen = seen, ![t].attempt = 0]

\* a worker is free for test t, the next of the queue
CanStart(t) ==
    /\ run.phase = "tests"
    /\ tests[t].pc = "queued"
    /\ \A u \in TestIds : Before(u, t) => tests[u].pc # "queued"
    /\ FullyParallel \/ \A u \in TestIds : (u[1] = t[1] /\ Before(u, t)) => Terminal(u)
    /\ Cardinality({u \in TestIds : InWorker(u)}) < Workers

\* the storageState option of a describe block: test.use({ storageState })
\* is declared by "Logout Flow using storageState" alone
DescribeUse(describe) ==
    IF describe = "Logout Flow using storageState"
    THEN [storageState |-> "./storageState/storageState.json"]
    ELSE [storageState |-> "undefined"]

\* config.use: headless, baseURL, trace, ..., and no storageState
ConfigUse == [storageState |-> "undefined"]

\* the session the browser context of a test of the describe block starts
\* from: the snapshot when an option names it, else a fresh one
NewContext(describe) ==
    IF DescribeUse(describe).storageState # "undefined"
       \/ ConfigUse.storageState # "undefined"
    THEN snapshot ELSE "fresh"

\* a worker takes test t, creates its context and page and sets up its
\* loginPage fixture: new LoginPage(page), goto(), then use(loginPage)
FixtureSetup(t, ok) ==
    /\ CanStart(t)
    /\ tests' = IF ok
                THEN [tests EXCEPT ![t].pc = IF t[2] = Logout THEN "readTestData" ELSE "login",
                                   ![t].context = NewContext("Login Flow")]
                ELSE Failed(t, NotRead)
    /\ UNCHANGED <<unitVars, disk, call, writers, helperVars, env, run, boot, snapshot>>

\* login() and assertLoginSuccess() of the login test
LoginAndAssert(t, ok) ==
    /\ tests[t].pc = "login"
    /\ tests' = IF ok THEN [tests EXCEPT ![t].pc = "writeTestData"] ELSE Failed(t, NotRead)
    /\ UNCHANGED <<unitVars, disk, call, writers, helperVars, env, run, boot, snapshot>>

\* writeTestData({ loginSuccess: true }) up to the opening of the file
WriteOutcomeOpen(t) ==
    /\ tests[t].pc = "writeTestData"
    /\ disk' = OpenTruncate(EnsureTempDir(disk))
    /\ tests' = [tests EXCEPT ![t].pc = "writeSync"]
    /\ UNCHANGED <<unitVars, call, writers, helperVars, env, run, boot, snapshot>>

\* writeTestData({ loginSuccess: true }), the write; the test has passed
WriteOutcomeText(t) ==
    /\ tests[t].pc = "writeSync"
    /\ disk' = WriteAtStart(disk, JsonBytes(LoginOutcome))
    /\ tests' = [tests EXCEPT ![t].pc = "passed", ![t].attempt = 0]
    /\ UNCHANGED <<unitVars, call, writers, helperVars, env, run, boot, snapshot>>

\* const testData = readTestData(); test.skip(!testData.loginSuccess, ...):
\* an error of the read or of the property access fails the test
ReadOutcome(t) ==
    /\ tests[t].pc = "readTestData"
    /\ LET testData == readTestData(disk)
           seen == Member(testData.value, LoginSuccess)
       IN  tests' = IF testData.threw THEN Failed(t, ReadThrew)
                    ELSE IF MemberThrows(testData.value) THEN Failed(t, ReadOfNull)
                    ELSE IF SkipLogout(testData.value)
                    THEN [tests EXCEPT ![t].pc = "skipped", ![t].seen = seen, ![t].attempt = 0]
                    ELSE [tests EXCEPT ![t].pc = "body", ![t].seen = seen, ![t].ran = TRUE]
    /\ UNCHANGED <<unitVars, disk, call, writers, helperVars, env, run, boot, snapshot>>

\* login(), assertLoginSuccess() and logout() of the logout test
LogoutBody(t, ok) ==
    /\ tests[t].pc = "body"
    /\ tests' = IF ok THEN [tests EXCEPT ![t].pc = "passed", ![t].attempt = 0]
                ELSE Failed(t, tests[t].seen)
    /\ UNCHANGED <<unitVars, disk, call, writers, helperVars, env, run, boot, snapshot>>

(***************************************************************************)
(* Global teardown and the next run                                        *)
(***************************************************************************)
\* global-teardown.js: temp/ is cleaned, then the results are archived; an
\* error in either part is caught and logged (failure "clean": thrown before
\* the outcome file was unlinked, "archive": thrown after)
GlobalTeardown(failure) ==
    /\ run.phase = "tests"
    /\ \A t \in TestIds : Terminal(t)
    /\ disk' = IF failure = "clean" THEN disk ELSE CleanTempDir(disk)
    /\ run' = [run EXCEPT !.phase = "done"]
    /\ UNCHANGED <<unitVars, call, writers, helperVars, env, boot, snapshot, tests>>

\* the suite is started again
NextRun ==
    /\ run.phase \in {"done", "aborted"}
    /\ run' = [phase |-> "globalSetup",
               startedEmpty |-> readTestData(disk) = [threw |-> FALSE, value |-> Object(EmptyObject)]]
    /\ boot' = IdleBoot
    /\ tests' = [t \in TestIds |-> QueuedTest]
    /\ UNCHANGED <<unitVars, disk, call, writers, helperVars, env, snapshot>>

RunInit ==
    /\ disk = FreshDisk
    /\ call = NoCall
    /\ writers = [p \in Procs |-> IdleWriter]
    /\ env \in Envs
    /\ run = FirstRun
    /\ boot = IdleBoot
    /\ snapshot = "absent"
    /\ tests = [t \in TestIds |-> QueuedTest]
    /\ NoHelpers

RunNext ==
    \/ BootStepCompletes
    \/ BootStepThrows
    \/ \E accepted \in BOOLEAN : ServerResponds(accepted)
    \/ BeginTests
    \/ \E t \in TestIds : \E ok \in BOOLEAN : FixtureSetup(t, ok)
    \/ \E t \in TestIds : \E ok \in BOOLEAN : LoginAndAssert(t, ok)
    \/ \E t \in TestIds : WriteOutcomeOpen(t)
    \/ \E t \in TestIds : WriteOutcomeText(t)
    \/ \E t \in TestIds : ReadOutcome(t)
    \/ \E t \in TestIds : \E ok \in BOOLEAN : LogoutBody(t, ok)
    \/ \E failure \in {"none", "clean", "archive"} : GlobalTeardown(failure)
    \/ NextRun

SpecRun == RunInit /\ [][RunNext]_vars

LoginTest(p) == tests[<<p, LoginValid>>]

LogoutTest(p) == tests[<<p, Logout>>]

\* C5: the part of "Logout after Login" after test.skip() is entered exactly
\* when the record read at the start of the test has a truthy loginSuccess:
\* it is entered after true was read, and skipped when loginSuccess was
\* undefined
LogoutBodyIffLoginSuccess ==
    \A p \in Projects :
        /\ LogoutTest(p).ran <=> Truthy(LogoutTest(p).seen)
        /\ LogoutTest(p).seen = JsTrue => LogoutTest(p).pc \in {"body", "passed", "failed"}
        /\ LogoutTest(p).seen = Undefined => LogoutTest(p).pc = "skipped"

\* one logout test read true and went on, another read undefined and was skipped
LogoutRanAndLogoutSkipped ==
    \E p, q \in Projects :
        /\ LogoutTest(p).seen = JsTrue
        /\ LogoutTest(p).ran
        /\ LogoutTest(q).seen = Undefined
        /\ LogoutTest(q).pc = "skipped"

\* C6: in sequential mode, starting from an empty store, the logout test that
\* reaches its test.skip() runs its body if the login test before it passed,
\* and is skipped if that login test failed
SequentialGating ==
    (env.executionMode = "sequential" /\ run.startedEmpty) =>
        \A p \in Projects :
            LogoutTest(p).seen # NotRead =>
                /\ LoginTest(p).pc = "passed" =>
                      LogoutTest(p).seen = JsTrue /\ LogoutTest(p).ran
                /\ LoginTest(p).pc = "failed" => LogoutTest(p).pc = "skipped"

\* C7: a logout test that is skipped although the login test of its project
\* passes in the same run is what parallel mode alone allows: the reader is
\* then not ordered after the writer
SkippedDespitePassOnlyInParallel ==
    \A p \in Projects :
        (LoginTest(p).pc = "passed" /\ LogoutTest(p).pc = "skipped") =>
            env.executionMode = "parallel"

\* parallel mode, empty store at the start: the login test passed, the logout
\* test had read the store before the write and was skipped
ParallelLogoutSkippedDespitePass ==
    /\ env.executionMode = "parallel"
    /\ run.startedEmpty
    /\ \E p \in Projects :
          /\ LoginTest(p).pc = "passed"
          /\ LogoutTest(p).pc = "skipped"
          /\ LogoutTest(p).seen = Undefined

\* C9: the global setup runs once per run, not once per test, and has
\* completed before the first fixture or test body of the run starts
BootstrapOnceBeforeTests ==
    /\ boot.runs <= 1
    /\ (\E t \in TestIds : Started(t)) =>
          boot.runs = 1 /\ BootDone /\ boot.error = "none"

\* every test of the run has finished and the global setup ran once
AllTestsDoneAfterOneBootstrap ==
    /\ \A t \in TestIds : Terminal(t)
    /\ boot.runs = 1

\* C10: when a statement of the global setup does not complete, the setup
\* has failed, it is not run again and no test of the run executes
BootstrapFailureAbortsRun ==
    boot.error # "none" =>
        /\ run.phase = "aborted"
        /\ boot.runs = 1
        /\ \A t \in TestIds : ~Started(t)

\* the click on the submit button did not complete and the run was ended
SubmitClickFailedRunAborted ==
    /\ boot.error = "clickSubmit"
    /\ run.phase = "aborted"
    /\ \A t \in TestIds : tests[t] = QueuedTest

(***************************************************************************)
(* Fixtures: fixtures/customFixtures.js, fixtures/loginFixture.js and      *)
(* BaseTest.createTest(), set up and torn down around one test at a time   *)
(***************************************************************************)
\* most fixtures a test function names in its parameter
MaxDeclared == 2

Range(seq) == {seq[i] : i \in DOMAIN seq}

Reverse(seq) == [i \in DOMAIN seq |-> seq[Len(seq) + 1 - i]]

NoDuplicates(seq) == \A i, j \in DOMAIN seq : seq[i] = seq[j] => i = j

\* the fixtures of the runner that the fixtures of the repository name;
\* browser lives as long as the worker, the others as long as a test
BuiltIn == {"browser", "context", "page", "baseURL"}

WorkerScoped == {"browser"}

\* const test = base.extend({ ... }) of fixtures/customFixtures.js
CustomFixtures ==
    {"apiHelper", "browserHelper", "testData", "authenticatedUser", "adminUser",
     "database", "performanceMonitor", "screenshot", "networkMocker",
     "errorTracker", "fileOperations", "mobileDevice"}

\* the three test objects of the repository and the fixtures each one adds
Extended ==
    [customFixtures |-> CustomFixtures, loginFixture |-> {"loginPage"},
     BaseTest |-> {"baseTest"}]

\* the fixtures a fixture function destructures from its first parameter
Deps(name) ==
    CASE name = "apiHelper" -> <<"baseURL">>
      [] name = "browserHelper" -> <<"page", "context">>
      [] name \in {"authenticatedUser", "adminUser"} -> <<"page", "apiHelper">>
      [] name \in {"performanceMonitor", "screenshot", "networkMocker", "errorTracker",
                   "fileOperations", "loginPage", "baseTest"} -> <<"page">>
      [] name = "mobileDevice" -> <<"browser">>
      [] name = "page" -> <<"context">>
      [] name = "context" -> <<"browser">>
      [] OTHER -> <<>>

\* the runner sets up the fixtures a test names in the order of its parameter,
\* each one after the fixtures it depends on and not a second time
RECURSIVE SetupInto(_, _)
SetupInto(order, names) ==
    IF names = <<>> THEN order
    ELSE LET name == Head(names)
             after == IF name \in Range(order) \/ name \in WorkerScoped THEN order
                      ELSE Append(SetupInto(order, Deps(name)), name)
         IN  SetupInto(after, Tail(names))

SetupOrder(decl) == SetupInto(<<>>, decl)

\* the parameter of a test function: fixtures of one test object, and page
Declarations ==
    {decl \in UNION {[1..n -> BuiltIn \cup CustomFixtures \cup {"loginPage", "baseTest"}] :
                        n \in 1..MaxDeclared} :
        /\ NoDuplicates(decl)
        /\ \E t \in DOMAIN Extended : Range(decl) \subseteq Extended[t] \cup {"page"}}

\* the fixtures whose function can throw before it calls use(): an API or UI
\* login, a navigation, a new context, a directory that cannot be made
SetupCanThrow ==
    {"authenticatedUser", "adminUser", "performanceMonitor", "fileOperations",
     "mobileDevice", "loginPage", "baseTest"}

\* a fixture function that catches the error of its setup and goes on
SetupRethrows_swallowed(name) == FALSE

\* what a fixture function does with an error of its setup: no fixture
\* swallows it (adminUser: catch, log, throw error; authenticatedUser falls
\* back to the UI login, whose errors are not caught)
SetupRethrows(name) == TRUE

\* a database fixture that disconnects before it cleans up
TeardownCalls_disconnectFirst(name, failed) ==
    CASE name = "database" -> <<"disconnect", "cleanupTestData">>
      [] name = "networkMocker" -> <<"clearMocks">>
      [] name = "fileOperations" -> <<"cleanupFiles">>
      [] name = "mobileDevice" -> <<"context.close">>
      [] name = "baseTest" -> <<"afterEach">>
      [] name = "screenshot" /\ failed -> <<"takeScreenshot">>
      [] name \in {"page", "context"} -> <<"close">>
      [] OTHER -> <<>>

\* the calls a fixture function makes after use() has returned; failed: the
\* status of the test is not the expected one
TeardownCalls(name, failed) ==
    CASE name = "database" -> <<"cleanupTestData", "disconnect">>
      [] name = "networkMocker" -> <<"clearMocks">>
      [] name = "fileOperations" -> <<"cleanupFiles">>
      [] name = "mobileDevice" -> <<"context.close">>
      [] name = "baseTest" -> <<"afterEach">>
      [] name = "screenshot" /\ failed -> <<"takeScreenshot">>
      [] name \in {"page", "context"} -> <<"close">>
      [] OTHER -> <<>>

\* the teardown calls that can reject: calls on a page, context or browser
\* that is gone (cleanupFiles catches its errors, the database is a mock)
TeardownCanThrow(name, failed) ==
    \/ name \in {"networkMocker", "mobileDevice"}
    \/ name = "screenshot" /\ failed

\* the keys the tests store generated data under
GeneratedKeys == {"user"}

storeVars == <<disk, call, writers>>

\* a status that counts the errors of the test body alone
TestFailed_bodyOnly == fx.error = "body"

\* testInfo.status !== testInfo.expectedStatus: an error of a fixture or of
\* the test body has been recorded for the test
TestFailed == fx.error # "none"

\* the fixtures set up are being torn down: after the test body, or after
\* the setup of a fixture has thrown
TearingDown ==
    \/ fx.phase = "TEARING_DOWN"
    \/ fx.phase = "RESOLVING" /\ fx.error = "setup"

\* the worker takes the next test; its function names the fixtures decl
TakeTest(decl) ==
    /\ fx.phase = "PENDING"
    /\ fx' = [fx EXCEPT !.phase = "RESOLVING", !.decl = decl, !.todo = SetupOrder(decl)]
    /\ UNCHANGED <<unitVars, storeVars, runVars, tdm, retry>>

\* the index of the user a fixture asks testDataManager.getUser('valid', ...)
\* for before anything else; -1: the fixture does not call it
UserIndex(name) ==
    CASE name = "authenticatedUser" -> 0
      [] name = "adminUser" -> 1
      [] OTHER -> -1

\* the function of fixture name after its call of getUser, if it makes one,
\* ended as user says
SetupWith(name, throws, user) ==
    /\ fx' = IF user.threw \/ (throws /\ SetupRethrows(name))
             THEN [fx EXCEPT !.threw = name, !.error = "setup"]
             ELSE [fx EXCEPT !.live = Append(@, name), !.todo = Tail(@),
                             !.threw = IF throws THEN name ELSE @]
    /\ tdm' = user.tdm

\* the function of the next fixture runs up to use(value), or throws before:
\* authenticatedUser and adminUser start with getUser, whose error leaves
\* the function and which puts users.json in the cache of the manager;
\* throws: a later statement of the setup throws
SetupFixture(throws) ==
    /\ fx.phase = "RESOLVING"
    /\ fx.error = "none"
    /\ fx.todo # <<>>
    /\ throws => Head(fx.todo) \in SetupCanThrow
    /\ SetupWith(Head(fx.todo), throws,
                 IF UserIndex(Head(fx.todo)) >= 0
                 THEN getUser(tdm, dataDir, "valid", UserIndex(Head(fx.todo)))
                 ELSE [threw |-> FALSE, value |-> Undefined, tdm |-> tdm])
    /\ UNCHANGED <<unitVars, storeVars, runVars, retry>>

\* every fixture the test needs has a value
AllResolved ==
    /\ fx.phase = "RESOLVING"
    /\ fx.error = "none"
    /\ fx.todo = <<>>
    /\ fx' = [fx EXCEPT !.phase = "READY"]
    /\ UNCHANGED <<unitVars, storeVars, runVars, tdm, retry>>

\* the test function is called with the fixture values
EnterBody ==
    /\ fx.phase = "READY"
    /\ fx' = [fx EXCEPT !.phase = "RUNNING_TEST", !.entered = TRUE]
    /\ UNCHANGED <<unitVars, storeVars, runVars, tdm, retry>>

\* testData.saveGeneratedData(key, data) in the test body
SaveGeneratedData(key) ==
    /\ fx.phase = "RUNNING_TEST"
    /\ "testData" \in Range(fx.live)
    /\ tdm' = [tdm EXCEPT !.generatedData = @ \cup {key}]
    /\ fx' = [fx EXCEPT !.saved = @ \cup {key}]
    /\ UNCHANGED <<unitVars, storeVars, runVars, retry>>

\* testData.getGeneratedData(key) in the test body: the data, or an error
\* that ends the body
GetGeneratedData(key) ==
    /\ fx.phase = "RUNNING_TEST"
    /\ "testData" \in Range(fx.live)
    /\ fx' = IF key \in tdm.generatedData
             THEN [fx EXCEPT !.found = @ \cup {key}]
             ELSE [fx EXCEPT !.phase = "TEARING_DOWN", !.error = "body"]
    /\ UNCHANGED <<unitVars, storeVars, runVars, tdm, retry>>

\* testData.clearGeneratedData(key) in the test body: the key is deleted,
\* or the map is cleared when the key is null or another falsy value ("")
ClearGeneratedData(key) ==
    /\ fx.phase = "RUNNING_TEST"
    /\ "testData" \in Range(fx.live)
    /\ tdm' = [tdm EXCEPT !.generatedData = IF key = "" THEN {} ELSE @ \ {key}]
    /\ UNCHANGED <<unitVars, storeVars, runVars, fx, retry>>

\* the test body after its call of getUser ended as user says
GotUser(user) ==
    /\ tdm' = user.tdm
    /\ fx' = IF user.threw
             THEN [fx EXCEPT !.phase = "TEARING_DOWN", !.error = "body"]
             ELSE fx

\* testData.getUser('valid', index) in the test body: users.json is loaded
\* into the cache of the manager; an error of getUser ends the body
GetUser(index) ==
    /\ fx.phase = "RUNNING_TEST"
    /\ "testData" \in Range(fx.live)
    /\ GotUser(getUser(tdm, dataDir, "valid", index))
    /\ UNCHANGED <<unitVars, storeVars, runVars, retry>>

\* the test function returns, or an assertion or a call in it throws
BodyEnds(throws) ==
    /\ fx.phase = "RUNNING_TEST"
    /\ fx' = [fx EXCEPT !.phase = "TEARING_DOWN",
                        !.error = IF throws THEN "body" ELSE "none"]
    /\ UNCHANGED <<unitVars, storeVars, runVars, tdm, retry>>

\* use() returns in the function of the fixture set up last among those
\* still up, and the function runs to its end, or throws on the way
TeardownFixture(throws) ==
    /\ TearingDown
    /\ Len(fx.torn) < Len(fx.live)
    /\ LET name == fx.live[Len(fx.live) - Len(fx.torn)]
       IN  /\ throws => TeardownCanThrow(name, TestFailed)
           /\ fx' = [fx EXCEPT !.torn = Append(@, <<name, TeardownCalls(name, TestFailed)>>),
                               !.error = IF throws /\ @ = "none" THEN "teardown" ELSE @]
    /\ UNCHANGED <<unitVars, storeVars, runVars, tdm, retry>>

\* no fixture is left to tear down: the test has its status
FinishTest ==
    /\ TearingDown
    /\ Len(fx.torn) = Len(fx.live)
    /\ fx' = [fx EXCEPT !.phase = IF TestFailed THEN "FAILED" ELSE "DONE"]
    /\ UNCHANGED <<unitVars, storeVars, runVars, tdm, retry>>

\* the next test of the worker: after a failed test the runner starts a new
\* worker process, which loads utils/testDataManager.js again
NextTest ==
    /\ fx.phase \in {"DONE", "FAILED"}
    /\ fx' = PendingFixtures
    /\ tdm' = IF fx.phase = "FAILED" THEN NewTestDataManager ELSE tdm
    /\ UNCHANGED <<unitVars, storeVars, runVars, retry>>

\* a worker process is started in one of the working directories
FixturesInit ==
    /\ disk = FreshDisk
    /\ call = NoCall
    /\ writers = [p \in Procs |-> IdleWriter]
    /\ NoRun
    /\ NoWorker
    /\ dataDir \in Checkouts

FixturesNext ==
    \/ fx.phase = "PENDING" /\ \E decl \in Declarations : TakeTest(decl)
    \/ \E throws \in BOOLEAN : SetupFixture(throws)
    \/ AllResolved
    \/ EnterBody
    \/ \E key \in GeneratedKeys : SaveGeneratedData(key)
    \/ \E key \in GeneratedKeys : GetGeneratedData(key)
    \/ \E key \in GeneratedKeys \cup {""} : ClearGeneratedData(key)
    \/ \E index \in 0..1 : GetUser(index)
    \/ \E throws \in BOOLEAN : BodyEnds(throws)
    \/ \E throws \in BOOLEAN : TeardownFixture(throws)
    \/ FinishTest
    \/ NextTest

SpecFixtures == FixturesInit /\ [][FixturesNext]_vars

\* the fixtures torn down so far, in the order of their teardown
TornNames == [i \in DOMAIN fx.torn |-> fx.torn[i][1]]

\* the calls the function of fixture name made after use()
CallsAfterUse(name) ==
    LET i == CHOOSE j \in DOMAIN fx.torn : fx.torn[j][1] = name IN fx.torn[i][2]

Finished == fx.phase \in {"DONE", "FAILED"}

\* C14: the fixtures of a test are set up each after the fixtures it depends
\* on; they are torn down in the reverse of the order they were set up in;
\* after a test body that was entered, whether it returned or threw, every
\* fixture set up has been torn down and has made its calls after use():
\* database cleanupTestData then disconnect, networkMocker clearMocks,
\* fileOperations cleanupFiles, mobileDevice context.close, baseTest afterEach
SetupInDependencyOrderTeardownReversed ==
    /\ NoDuplicates(fx.live)
    /\ \A i \in DOMAIN fx.live :
          \A d \in Range(Deps(fx.live[i])) \ WorkerScoped :
              \E j \in 1..(i - 1) : fx.live[j] = d
    /\ TornNames = SubSeq(Reverse(fx.live), 1, Len(fx.torn))
    /\ (fx.entered /\ Finished) =>
          /\ TornNames = Reverse(fx.live)
          /\ "database" \in Range(fx.live) =>
                CallsAfterUse("database") = <<"cleanupTestData", "disconnect">>
          /\ "networkMocker" \in Range(fx.live) =>
                CallsAfterUse("networkMocker") = <<"clearMocks">>
          /\ "fileOperations" \in Range(fx.live) =>
                CallsAfterUse("fileOperations") = <<"cleanupFiles">>
          /\ "mobileDevice" \in Range(fx.live) =>
                CallsAfterUse("mobileDevice") = <<"context.close">>
          /\ "baseTest" \in Range(fx.live) =>
                CallsAfterUse("baseTest") = <<"afterEach">>

\* a test with database and authenticatedUser whose body threw: apiHelper and
\* page were set up before authenticatedUser, all five were torn down
BodyThrewFixturesTornDownInReverse ==
    /\ fx.phase = "FAILED"
    /\ fx.error = "body"
    /\ fx.live = <<"database", "context", "page", "baseURL", "apiHelper", "authenticatedUser">>
    /\ TornNames = Reverse(fx.live)
    /\ CallsAfterUse("database") = <<"cleanupTestData", "disconnect">>

\* C15: when the setup of a fixture throws, the test body is not entered,
\* the test fails with the setup error (it is neither skipped nor passed),
\* and the fixtures set up before are torn down once each, in reverse order
SetupErrorFailsTestAfterTeardown ==
    fx.threw # "none" =>
        /\ ~fx.entered
        /\ fx.error = "setup"
        /\ fx.phase \in {"RESOLVING", "FAILED"}
        /\ fx.threw \notin Range(fx.live)
        /\ NoDuplicates(TornNames)
        /\ TornNames = SubSeq(Reverse(fx.live), 1, Len(fx.torn))
        /\ fx.phase = "FAILED" => TornNames = Reverse(fx.live)

\* the API login of adminUser failed after database, page and apiHelper were
\* set up; the test has failed and the four fixtures with it are torn down
AdminUserSetupThrew ==
    /\ fx.threw = "adminUser"
    /\ fx.phase = "FAILED"
    /\ fx.decl = <<"database", "adminUser">>
    /\ TornNames = <<"apiHelper", "baseURL", "page", "context", "database">>

\* the moves of the lifecycle of one test's fixtures; failures names the
\* errors with which TEARING_DOWN may end in FAILED
LifecycleMove(failures) ==
    \/ fx'.phase = fx.phase
    \/ fx.phase = "PENDING" /\ fx'.phase = "RESOLVING"
    \/ /\ fx.phase = "RESOLVING" /\ fx'.phase = "READY"
       /\ Range(fx.decl) \ WorkerScoped \subseteq Range(fx.live)
    \/ fx.phase = "READY" /\ fx'.phase = "RUNNING_TEST"
    \/ fx.phase = "RUNNING_TEST" /\ fx'.phase = "TEARING_DOWN"
    \/ fx.phase = "TEARING_DOWN" /\ fx'.phase = "DONE" /\ fx'.error = "none"
    \/ fx.phase = "RESOLVING" /\ fx'.phase = "FAILED" /\ fx'.error = "setup"
    \/ fx.phase = "TEARING_DOWN" /\ fx'.phase = "FAILED" /\ fx'.error \in failures
    \/ fx.phase \in {"DONE", "FAILED"} /\ fx'.phase = "PENDING"

\* C16 as stated: the lifecycle only moves PENDING, RESOLVING, READY,
\* RUNNING_TEST, TEARING_DOWN, DONE; FAILED is reached only from RESOLVING
\* with a setup error or, through TEARING_DOWN, with an error of the test body
FailedOnlyFromSetupOrBody == [][LifecycleMove({"body"})]_vars

\* C16, amended: the same lifecycle, where TEARING_DOWN ends in FAILED also
\* when the test body returned and the teardown of a fixture threw
FailedFromSetupBodyOrTeardown == [][LifecycleMove({"body", "teardown"})]_vars

\* the body of a test returned, the teardown of a fixture threw, the test failed
TeardownErrorFailedTest ==
    /\ fx.phase = "FAILED"
    /\ fx.entered
    /\ fx.error = "teardown"
    /\ TornNames = Reverse(fx.live)

\* C17: no fixture value is shared between tests: what a test finds in its
\* testData fixture is what the same test has stored there
NoFixtureStateAcrossTests == fx.found \subseteq fx.saved

(***************************************************************************)
(* Bounded retry: BaseTest.retryAssertion, BaseTest.retryAction and        *)
(* BasePage.retryAction                                                    *)
(***************************************************************************)
\* largest maxRetries a caller passes, and most failures of an action
MaxAttempts == 3

\* maxRetries = 3
DefaultMaxRetries == 3

\* delay = 1000
DefaultDelay == 1000

RetryHelpers == {"BaseTest.retryAssertion", "BaseTest.retryAction", "BasePage.retryAction"}

\* an argument the caller leaves out, and one it passes
Omitted == [given |-> FALSE, value |-> 0]

Given(value) == [given |-> TRUE, value |-> value]

\* a parameter with a default value: the default stands in for undefined
DefaultTo(arg, default) == IF arg.given THEN arg.value ELSE default

\* what an action throws or rejects with: an Error, a string, null, undefined
Thrown == {"Error", "string", "null", "undefined"}

\* the actions: what their invocations throw, one after the other, before
\* one returns
Actions == UNION {[1..n -> Thrown] : n \in 0..MaxAttempts}

\* for (let i = 0; i < maxRetries; i++)
LoopContinues(i, maxRetries) == i < maxRetries

\* ${error.message} in the log line of the catch block: reading a property
\* of null or undefined throws a TypeError
MessageThrows(error) == error \in {"null", "undefined"}

\* if (i === maxRetries - 1) throw error
IsLastAttempt(i, maxRetries) == i = maxRetries - 1

\* page.waitForTimeout(delay) rejects when the page has been closed
WaitRejects(n, closes) == n = closes

\* helper(action, maxRetries, delay) is called; the action throws what
\* throws lists on its first invocations, the page is closed at the call
\* closes of waitForTimeout
CallRetry(helper, maxRetries, delay, throws, closes) ==
    /\ retry.pc = "idle"
    /\ retry' = [IdleRetry EXCEPT !.pc = "loop", !.helper = helper, !.throws = throws,
                                  !.fails = Len(throws), !.closes = closes,
                                  !.maxRetries = DefaultTo(maxRetries, DefaultMaxRetries),
                                  !.delay = DefaultTo(delay, DefaultDelay)]
    /\ UNCHANGED <<unitVars, storeVars, runVars, fx, tdm>>

\* i < maxRetries: the loop body is entered, or the loop ends and the helper
\* returns undefined
LoopTest ==
    /\ retry.pc = "loop"
    /\ retry' = IF LoopContinues(retry.i, retry.maxRetries)
                THEN [retry EXCEPT !.pc = "try"]
                ELSE [retry EXCEPT !.pc = "done", !.result = "returned"]
    /\ UNCHANGED <<unitVars, storeVars, runVars, fx, tdm>>

\* try { await action(); return; }
Invoke ==
    /\ retry.pc = "try"
    /\ retry' = IF retry.calls + 1 > retry.fails
                THEN [retry EXCEPT !.calls = @ + 1, !.pc = "done", !.result = "returned"]
                ELSE [retry EXCEPT !.calls = @ + 1, !.pc = "catch", !.caught = retry.calls + 1]
    /\ UNCHANGED <<unitVars, storeVars, runVars, fx, tdm>>

\* catch (error) { logger.warn(`... ${error.message}`);
\* if (i === maxRetries - 1) throw error; the TypeError of the log line
\* leaves the helper at once
Catch ==
    /\ retry.pc = "catch"
    /\ retry' = IF MessageThrows(retry.throws[retry.caught])
                THEN [retry EXCEPT !.pc = "done", !.result = "threw", !.typeError = TRUE]
                ELSE IF IsLastAttempt(retry.i, retry.maxRetries)
                THEN [retry EXCEPT !.pc = "done", !.result = "threw", !.thrown = retry.caught]
                ELSE [retry EXCEPT !.pc = "wait", !.suppressed = @ \cup {retry.caught}]
    /\ UNCHANGED <<unitVars, storeVars, runVars, fx, tdm>>

\* await this.page.waitForTimeout(delay); } and i++; the rejection of
\* waitForTimeout is thrown inside the catch block and leaves the helper
Wait ==
    /\ retry.pc = "wait"
    /\ retry' = IF WaitRejects(retry.waits + 1, retry.closes)
                THEN [retry EXCEPT !.pc = "done", !.result = "threw", !.waits = @ + 1,
                                  !.waitError = TRUE]
                ELSE [retry EXCEPT !.pc = "loop", !.i = @ + 1, !.waits = @ + 1,
                                  !.waited = @ + retry.delay, !.caught = 0]
    /\ UNCHANGED <<unitVars, storeVars, runVars, fx, tdm>>

RetryNext ==
    \/ /\ retry.pc = "idle"
       /\ \E helper \in RetryHelpers :
             \E maxRetries \in {Omitted} \cup {Given(n) : n \in -1..MaxAttempts} :
                 \E throws \in Actions, closes \in 0..(MaxAttempts - 1) :
                     CallRetry(helper, maxRetries, Omitted, throws, closes)
    \/ LoopTest
    \/ Invoke
    \/ Catch
    \/ Wait

SpecRetry == StoreInit /\ [][RetryNext]_vars

\* C19: an action that throws k times and then returns, with k < maxRetries:
\* the helper returns, it has invoked the action k + 1 times (3 times for two
\* failures) and never invokes it after it has returned
RetrySucceedsAfterFailures ==
    (retry.pc # "idle" /\ retry.fails < retry.maxRetries) =>
        /\ retry.calls <= retry.fails + 1
        /\ retry.result # "threw"
        /\ retry.pc = "done" =>
              /\ retry.result = "returned"
              /\ retry.calls = retry.fails + 1
              /\ retry.fails = 2 => retry.calls = 3

\* C20: an action that throws on every attempt, with maxRetries >= 1: the
\* helper invokes it maxRetries times, suppresses the errors of all attempts
\* but the last, throws the error of the last attempt, and has waited the
\* delay maxRetries - 1 times, not after the last failure
RetryThrowsLastErrorAfterAllAttempts ==
    (retry.pc # "idle" /\ retry.maxRetries >= 1 /\ retry.fails >= retry.maxRetries) =>
        /\ retry.calls <= retry.maxRetries
        /\ retry.waits <= retry.maxRetries - 1
        /\ retry.pc = "done" =>
              /\ retry.result = "threw"
              /\ retry.calls = retry.maxRetries
              /\ retry.thrown = retry.maxRetries
              /\ retry.suppressed = 1..(retry.maxRetries - 1)
              /\ retry.waits = retry.maxRetries - 1
              /\ retry.waited = (retry.maxRetries - 1) * retry.delay

(***************************************************************************)
(* settings.json: the defaults, loading and saving                         *)
(***************************************************************************)
\* { ...target, ...source }: the keys source has replace those of target
Spread(target, source) ==
    [k \in DOMAIN target |-> IF source[k] # "undefined" THEN source[k] ELSE target[k]]

\* loadSettings() returns the object defaultSettings itself, not a copy,
\* when there is no file or JSON.parse threw
ReturnsDefaults(file) == file.kind \in {"missing", "invalid"}

\* loadSettings(): a new object, the defaults merged with the parsed file
\* ({...x, ...null} copies nothing from null); the object defaultSettings
\* as the process has it when there is no file or JSON.parse threw
loadSettings(file, defaults) ==
    [threw |-> FALSE,
     settings |-> IF ReturnsDefaults(file) THEN defaults
                  ELSE Spread(defaults, file.object)]

\* the configuration that merges: settings = { ...settings, ...JSON.parse(content) }
\* over the three defaults; the catch block keeps the defaults
MergedSettings(file) ==
    [threw |-> FALSE,
     settings |-> IF file.kind \in {"missing", "invalid"} THEN defaultSettings
                  ELSE Spread(defaultSettings, file.object)]

\* the configuration that replaces: settings = JSON.parse(content) over the
\* two defaults it declares; after JSON.parse gave null, settings.executionMode
\* throws a TypeError while the configuration is loaded
ReplacedSettings(file) ==
    CASE file.kind \in {"missing", "invalid"} ->
            [threw |-> FALSE,
             settings |-> [executionMode |-> "parallel", browserMode |-> "headless",
                           environment |-> "undefined"]]
      [] file.kind = "null" -> [threw |-> TRUE, settings |-> NoSettings]
      [] OTHER -> [threw |-> FALSE, settings |-> file.object]

\* the code that loads settings.json
Loaders == {"loadSettings", "merging config", "replacing config"}

\* settings.json is edited or removed while the process lives
EditSettings(file) ==
    /\ file # cfg.file
    /\ cfg' = [IdleCfg EXCEPT !.file = file, !.defaults = cfg.defaults]
    /\ UNCHANGED <<storeVars, runVars, helperVars, api, auth, dataDir>>

\* the process ends and another one loads setConfig.js: defaultSettings is
\* the object of lines 8-12 again
StartProcess ==
    /\ cfg.by # "none" \/ cfg.defaults # defaultSettings
    /\ cfg' = [IdleCfg EXCEPT !.file = cfg.file]
    /\ UNCHANGED <<storeVars, runVars, helperVars, api, auth, dataDir>>

\* the process loads the settings
LoadSettings(loader) ==
    /\ LET loaded == CASE loader = "loadSettings" -> loadSettings(cfg.file, cfg.defaults)
                       [] loader = "merging config" -> MergedSettings(cfg.file)
                       [] OTHER -> ReplacedSettings(cfg.file)
       IN  cfg' = [cfg EXCEPT !.by = loader, !.threw = loaded.threw,
                              !.settings = loaded.settings, !.saved = "none"]
    /\ UNCHANGED <<storeVars, runVars, helperVars, api, auth, dataDir>>

\* the options of node setConfig.js that change a setting
Options ==
    {<<"executionMode", "parallel">>, <<"executionMode", "sequential">>,
     <<"browserMode", "headless">>, <<"browserMode", "headed">>,
     <<"environment", "staging">>, <<"environment", "production">>}

\* setConfig(): loadSettings(), the option set on the object it returned
\* (which is defaultSettings itself when the file is missing or unparsable),
\* saveSettings(settings); saveSettings catches what fs.writeFileSync throws
\* (fails) and logs it
SetConfig(option, fails) ==
    /\ LET settings == [loadSettings(cfg.file, cfg.defaults).settings
                           EXCEPT ![option[1]] = option[2]]
       IN  cfg' = [file |-> IF fails THEN cfg.file
                            ELSE [kind |-> "object", object |-> settings],
                   by |-> "setConfig", threw |-> FALSE, settings |-> settings,
                   saved |-> IF fails THEN "error logged" ELSE "written",
                   defaults |-> IF ReturnsDefaults(cfg.file) THEN settings
                                ELSE cfg.defaults]
    /\ UNCHANGED <<storeVars, runVars, helperVars, api, auth, dataDir>>

SettingsNext ==
    \/ \E file \in SettingsFiles : EditSettings(file)
    \/ StartProcess
    \/ \E loader \in Loaders : LoadSettings(loader)
    \/ \E option \in Options, fails \in BOOLEAN : SetConfig(option, fails)

SpecSettings == StoreInit /\ [][SettingsNext]_vars

\* C21: whatever settings.json holds, the settings a loader (loadSettings or
\* either runner configuration) ends with have, for each of the three keys,
\* the value of the file when the file has the key and the default (parallel,
\* headless, staging) when it has not; no file or an unparsable file gives
\* the three defaults
AbsentSettingsTakeDefaults ==
    cfg.by \in Loaders =>
        /\ ~cfg.threw
        /\ \A k \in DOMAIN defaultSettings :
              cfg.settings[k] =
                  IF cfg.file.kind = "object" /\ cfg.file.object[k] # "undefined"
                  THEN cfg.file.object[k]
                  ELSE defaultSettings[k]

\* C22: an error of an operation reaches its caller: when fs.writeFileSync
\* threw in saveSettings, setConfig does not end as a successful call
SaveErrorSurfaces ==
    cfg.saved = "error logged" => cfg.threw

(***************************************************************************)
(* The authenticatedUser fixture                                           *)
(***************************************************************************)
\* how apiHelper.post('/auth/login') ends: a 2xx response with data.token,
\* a 2xx response whose data has none, a 2xx response without data (reading
\* data.token throws a TypeError), a response that is not 2xx, an error
\* thrown by post
LoginResponses == {"token", "no token", "no data", "rejected", "threw"}

\* the statements of the catch block before its use(), in order
FallbackSteps == <<"goto", "fillEmail", "fillPassword", "click", "waitForURL">>

\* a use() that rejects when the test body failed
UseRejects_onBodyError(failed) == failed

\* await use(value): the runner resolves the promise of use() when the test
\* has ended, whether the body passed or failed
UseRejects(failed) == FALSE

\* new URL(page.url() || 'http://localhost').hostname is empty for
\* about:blank, and addCookies rejects a cookie with neither url nor domain
CookieDomainValid(url) == url # "about:blank"

\* the fixture function after its call of getUser ended as user says: the
\* error of getUser leaves the function before the try block
BeginWith(fixture, url, user) ==
    /\ auth' = IF user.threw
               THEN [auth EXCEPT !.pc = "rejected", !.fixture = fixture,
                                 !.url = url, !.error = "getUser"]
               ELSE [auth EXCEPT !.pc = "apiLogin", !.fixture = fixture,
                                 !.url = url, !.user = user.value]
    /\ tdm' = user.tdm

\* the runner calls the fixture function for a test; the page is blank or
\* on a page of the site
BeginAuth(fixture, url) ==
    /\ auth.pc = "idle"
    /\ BeginWith(fixture, url, getUser(tdm, dataDir, "valid", UserIndex(fixture)))
    /\ UNCHANGED <<storeVars, runVars, fx, retry, cfg, api, dataDir>>

\* const loginResponse = await apiHelper.post('/auth/login', ...) and the
\* test of loginResponse.success && loginResponse.data.token, whose else
\* branch throws 'Authentication failed'
ApiLogin(response) ==
    /\ auth.pc = "apiLogin"
    /\ MemberThrows(auth.user) => response = "threw"
    /\ auth' = [auth EXCEPT !.login = response,
                            !.pc = IF response = "token" THEN "setBearerToken"
                                   ELSE "catch"]
    /\ UNCHANGED <<storeVars, runVars, helperVars, cfg, api, dataDir>>

\* apiHelper.setBearerToken(loginResponse.data.token)
SetBearerToken ==
    /\ auth.pc = "setBearerToken"
    /\ auth' = [auth EXCEPT !.bearer = TRUE, !.pc = "addCookies"]
    /\ UNCHANGED <<storeVars, runVars, helperVars, cfg, api, dataDir>>

\* await page.context().addCookies([...]); what it throws is caught by the
\* catch block
AddCookies(throws) ==
    /\ auth.pc = "addCookies"
    /\ ~CookieDomainValid(auth.url) => throws
    /\ auth' = IF throws THEN [auth EXCEPT !.pc = "catch"]
               ELSE [auth EXCEPT !.cookie = TRUE, !.pc = "use"]
    /\ UNCHANGED <<storeVars, runVars, helperVars, cfg, api, dataDir>>

\* the catch block: authenticatedUser logs the error and goes on to the UI
\* login, adminUser logs it and throws it again
CatchLoginError ==
    /\ auth.pc = "catch"
    /\ auth' = IF auth.fixture = "adminUser"
               THEN [auth EXCEPT !.pc = "rejected", !.error = "rethrown"]
               ELSE [auth EXCEPT !.pc = "goto"]
    /\ UNCHANGED <<storeVars, runVars, helperVars, cfg, api, dataDir>>

\* a statement of the UI login of the catch block; what it throws leaves
\* the fixture function and the test fails
FallbackStep(throws) ==
    /\ \E i \in DOMAIN FallbackSteps : auth.pc = FallbackSteps[i]
    /\ (auth.pc = "fillEmail" /\ MemberThrows(auth.user)) => throws
    /\ LET i == CHOOSE i \in DOMAIN FallbackSteps : auth.pc = FallbackSteps[i]
       IN  auth' =
             IF throws THEN [auth EXCEPT !.pc = "rejected", !.error = auth.pc]
             ELSE IF i < Len(FallbackSteps)
             THEN [auth EXCEPT !.pc = FallbackSteps[i + 1], !.url = "/login"]
             ELSE [auth EXCEPT !.pc = "useFallback", !.ui = TRUE, !.url = "/dashboard"]
    /\ UNCHANGED <<storeVars, runVars, helperVars, cfg, api, dataDir>>

\* use({ user, token }) of the try block and use({ user }) of the catch
\* block: the value goes to the test, whose body starts; a second call of
\* use() throws 'Cannot provide fixture value for the second time'
Use ==
    /\ auth.pc \in {"use", "useFallback"}
    /\ LET value == IF auth.pc = "use" THEN "user, token" ELSE "user"
       IN  auth' =
             IF auth.uses = <<>>
             THEN [auth EXCEPT !.uses = <<value>>, !.site = auth.pc, !.pc = "body"]
             ELSE [auth EXCEPT !.uses = Append(@, value), !.pc = "rejected",
                               !.error = "second use"]
    /\ UNCHANGED <<storeVars, runVars, helperVars, cfg, api, dataDir>>

\* the test body ends and the runner tears the fixture down: use() returns,
\* in the try block to the end of the function; a use() of the try block
\* that rejected would be caught by the catch block
AuthBodyEnds(failed) ==
    /\ auth.pc = "body"
    /\ auth' = [auth EXCEPT
                  !.body = IF failed THEN "failed" ELSE "passed",
                  !.pc = IF ~UseRejects(failed) THEN "returned"
                         ELSE IF auth.site = "use" THEN "catch" ELSE "rejected"]
    /\ UNCHANGED <<storeVars, runVars, helperVars, cfg, api, dataDir>>

\* the next test of the worker that names the fixture: after a failed test
\* the runner starts a new worker process, which loads
\* utils/testDataManager.js again
NextAuthTest ==
    /\ auth.pc \in {"returned", "rejected"}
    /\ auth' = IdleAuth
    /\ tdm' = IF auth.pc = "rejected" \/ auth.body = "failed"
              THEN NewTestDataManager ELSE tdm
    /\ UNCHANGED <<storeVars, runVars, fx, retry, cfg, api, dataDir>>

AuthNext ==
    \/ \E fixture \in {"authenticatedUser", "adminUser"}, url \in {"about:blank", "/"} :
          BeginAuth(fixture, url)
    \/ \E response \in LoginResponses : ApiLogin(response)
    \/ SetBearerToken
    \/ \E throws \in BOOLEAN : AddCookies(throws)
    \/ CatchLoginError
    \/ \E throws \in BOOLEAN : FallbackStep(throws)
    \/ Use
    \/ \E failed \in BOOLEAN : AuthBodyEnds(failed)
    \/ NextAuthTest

SpecAuth == FixturesInit /\ [][AuthNext]_vars

\* C23: whenever the test body runs with the value of authenticatedUser, the
\* user is logged in, the value has both user and token, and setBearerToken
\* has configured the apiHelper
BodyRunsAuthenticatedWithToken ==
    auth.pc = "body" /\ auth.fixture = "authenticatedUser" =>
        /\ auth.cookie \/ auth.ui
        /\ auth.uses = <<"user, token">>
        /\ auth.bearer

\* C28: on every path of authenticatedUser use() is called at most once per
\* test: with user and token only after the API login and the cookie
\* succeeded, with the user alone only after the UI login, never both, also
\* when a statement of the try block threw after the API login had succeeded
UseCalledAtMostOnce ==
    auth.fixture = "authenticatedUser" =>
        /\ Len(auth.uses) <= 1
        /\ auth.uses = <<"user, token">> =>
              auth.login = "token" /\ auth.cookie /\ ~auth.ui
        /\ auth.uses = <<"user">> => auth.ui /\ ~auth.cookie

\* the API login gave a token, addCookies threw in the try block, the UI
\* login ran and the test body, which failed, got the user alone
FellBackAfterApiLoginAndUsedOnce ==
    /\ auth.pc = "returned"
    /\ auth.fixture = "authenticatedUser"
    /\ auth.login = "token"
    /\ auth.bearer
    /\ ~auth.cookie
    /\ auth.body = "failed"
    /\ auth.uses = <<"user">>

(***************************************************************************)
(* APIHelper: requests, status validation and response formatting          *)
(***************************************************************************)
\* get, post, put, patch, delete, as config.method.toUpperCase() names them
Methods == {"GET", "POST", "PUT", "PATCH", "DELETE"}

\* the status codes the server answers with; 0: the request ends without a
\* response (connection refused, timeout of 30000 ms)
Statuses == {0, 200, 299, 300, 599, 600}

\* the url of the c-th request of a batch: one resource each
UrlOf(c) == ToString(c)

\* the default of axios: only 2xx resolves
validateStatus_only2xx(status) == status >= 200 /\ status < 300

\* validateStatus: function (status) { return status >= 200 && status < 600 }
validateStatus(status) == status >= 200 /\ status < 600

\* formatResponse(response): request is this.lastRequest at that moment
formatResponse(status, lastRequest) ==
    [status |-> status, request |-> lastRequest,
     success |-> status >= 200 /\ status < 300]

\* get(url) ... delete(url) up to the await: createInstance() and the
\* request handed to axios; requests are issued in program order
CallApi(c, method) ==
    /\ api.calls[c].pc = "idle"
    /\ c > 1 => api.calls[c - 1].pc # "idle"
    /\ api' = [api EXCEPT !.calls[c].pc = "created", !.calls[c].method = method,
                          !.calls[c].url = UrlOf(c)]
    /\ UNCHANGED <<storeVars, runVars, helperVars, cfg, auth, dataDir>>

\* the request interceptor of the instance runs, in the order the requests
\* were issued: this.lastRequest = { url, method, ... }
InterceptRequest(c) ==
    /\ api.calls[c].pc = "created"
    /\ c > 1 => api.calls[c - 1].pc \notin {"idle", "created"}
    /\ api' = [api EXCEPT !.calls[c].pc = "sent",
                          !.lastRequest = [method |-> api.calls[c].method,
                                           url |-> api.calls[c].url]]
    /\ UNCHANGED <<storeVars, runVars, helperVars, cfg, auth, dataDir>>

\* the request ends: axios resolves when validateStatus accepts the status
\* and the call returns formatResponse(response); otherwise axios rejects
\* and the call throws formatError(error), whose request is this.lastRequest
Respond(c, status) ==
    /\ api.calls[c].pc = "sent"
    /\ LET formatted == formatResponse(status, api.lastRequest)
           accepted == status # 0 /\ validateStatus(status)
       IN  api' = [api EXCEPT
                     !.calls[c].pc = IF accepted THEN "returned" ELSE "thrown",
                     !.calls[c].response = status,
                     !.calls[c].status = formatted.status,
                     !.calls[c].request = formatted.request,
                     !.calls[c].success = accepted /\ formatted.success]
    /\ UNCHANGED <<storeVars, runVars, helperVars, cfg, auth, dataDir>>

ApiNext ==
    \/ \E c \in 1..MaxCalls, method \in Methods : CallApi(c, method)
    \/ \E c \in 1..MaxCalls : InterceptRequest(c)
    \/ \E c \in 1..MaxCalls, status \in Statuses : Respond(c, status)

SpecApi == StoreInit /\ [][ApiNext]_vars

\* C24: a call of get/post/put/patch/delete whose request ended returned
\* exactly when a response with status 200..599 was received; what it
\* returned has the status of the response and success true exactly for
\* 200..299; every other end (no response, a status outside 200..599) is
\* thrown
AcceptedStatusesReturnFormatted ==
    \A c \in 1..MaxCalls :
        LET thisCall == api.calls[c]
        IN  thisCall.pc \in {"returned", "thrown"} =>
              /\ thisCall.pc = "returned" <=> thisCall.response \in 200..599
              /\ thisCall.pc = "returned" =>
                    /\ thisCall.status = thisCall.response
                    /\ thisCall.success <=> thisCall.response \in 200..299

\* a call returned a formatted response for status 599 with success false,
\* and another call returned one for 299 with success true
ServerErrorReturnedNotThrown ==
    \E c, d \in 1..MaxCalls :
        /\ api.calls[c].pc = "returned"
        /\ api.calls[c].response = 599
        /\ ~api.calls[c].success
        /\ api.calls[d].pc = "returned"
        /\ api.calls[d].response = 299
        /\ api.calls[d].success

\* C27: the request field of what a call returned describes the request of
\* that call (its method and url), also when other requests were issued on
\* the same APIHelper before the response arrived
ResponseCarriesItsOwnRequest ==
    \A c \in 1..MaxCalls :
        api.calls[c].pc = "returned" =>
            api.calls[c].request = [method |-> api.calls[c].method, url |-> api.calls[c].url]

\* readTestData().loginSuccess on disk d: the value (undefined when there
\* is no file or the object has no such property), or the error thrown by
\* JSON.parse or by the property access
Persisted(d) ==
    LET testData == readTestData(d)
    IN  IF testData.threw THEN ReadThrew
        ELSE IF MemberThrows(testData.value) THEN ReadOfNull
        ELSE Member(testData.value, LoginSuccess)

\* C25: in every state of a run in which a test can read the store (every
\* state of a parallel run; in a sequential run every state but those inside
\* the one writeFileSync in progress), the persisted loginSuccess is absent
\* or true and a read of it does not throw; no test reads false and no read
\* of a test fails; in a run that began with an empty store the file exists
\* only when a login test is past assertLoginSuccess (a failing login test
\* writes nothing); once a login test has passed, the file holds true for
\* the rest of the tests; and in sequential mode a logout test that reads
\* after a login test passed reads true, also when the login test of its
\* own project failed
LoginSuccessAbsentOrTrue ==
    LET persisted == Persisted(disk)
        readable == FullyParallel \/ \A t \in TestIds : tests[t].pc # "writeSync"
    IN  /\ readable => persisted = Undefined \/ persisted = JsTrue
        /\ \A t \in TestIds :
              /\ tests[t].seen # JsFalse
              /\ tests[t].seen # ReadThrew
              /\ tests[t].seen # ReadOfNull
        /\ (run.startedEmpty /\ ExistsDataPath(disk)) =>
              \E t \in TestIds :
                  t[2] = LoginValid /\ tests[t].pc \in {"writeSync", "passed"}
        /\ (/\ run.phase = "tests"
            /\ readable
            /\ \E p \in Projects : LoginTest(p).pc = "passed") => persisted = JsTrue
        /\ env.executionMode = "sequential" =>
              \A p, q \in Projects :
                  (/\ p <= q
                   /\ LoginTest(p).pc = "passed"
                   /\ LogoutTest(q).seen # NotRead) => LogoutTest(q).seen = JsTrue

\* C26: after a global teardown whose cleaning completed the outcome file
\* does not exist, and the first readTestData() after it returns an empty
\* mapping whatever the store held before the teardown: an outcome written
\* in one run is not observed in the next
TeardownClearsOutcomes ==
    /\ call.fn = "globalTeardown" =>
          /\ ~ExistsDataPath(disk)
          /\ readTestData(disk) = [threw |-> FALSE, value |-> Object(EmptyObject)]
    /\ (call.fn = "readTestData" /\ call.prev.fn = "globalTeardown") =>
          ReturnedEmpty(call.ret)

\* the store held loginSuccess true, the global teardown ran, and the read
\* after it returned an empty mapping
OutcomeRemovedAfterRun ==
    /\ call.fn = "readTestData"
    /\ call.prev.fn = "globalTeardown"
    /\ ExistsDataPath(call.prev.before)
    /\ Get(OnDisk(call.prev.before), LoginSuccess) = JsTrue
    /\ ReturnedEmpty(call.ret)

\* C29: whatever maxRetries is (0 and negative values included), a call of
\* retryAction / retryAssertion that has ended invoked the action at least
\* once, and returned normally only after an invocation that did not throw
RetryReturnsOnlyAfterSuccess ==
    retry.pc = "done" =>
        /\ retry.calls >= 1
        /\ retry.result = "returned" => retry.calls = retry.fails + 1

(***************************************************************************)
(* TestDataManager: loading with a cache, exporting, clearing the cache    *)
(***************************************************************************)
\* the data the callers export
ExportedData == {<<<<Units("user"), JsTrue>>>>, <<<<Units("user"), JsFalse>>>>}

\* the manager and the record of the call after loadTestData(f) ended
Loaded(f, loaded) ==
    /\ tdm' = loaded.tdm
    /\ dataDir' = [dataDir EXCEPT !.op = "loadTestData", !.file = f,
                                  !.threw = loaded.threw, !.ret = loaded.value]

\* a call of loadTestData(fileName)
LoadTestData(f) ==
    /\ Loaded(f, loadTestData(tdm, dataDir, f))
    /\ UNCHANGED <<storeVars, runVars, fx, retry, cfg, api, auth>>

\* exportTestData(fileName, data): fs.writeFileSync(filePath,
\* JSON.stringify(data, null, 2)); the cache is not touched; the error of
\* writeFileSync (ENOENT without testData/, EISDIR on a directory) is logged
\* and thrown again, and nothing is written
ExportTestData(f, data) ==
    /\ dataDir' =
          IF ~dataDir.dir \/ dataDir.entry[f] = "directory"
          THEN [dataDir EXCEPT !.op = "exportTestData", !.file = f, !.threw = TRUE,
                               !.ret = Undefined]
          ELSE [dataDir EXCEPT !.entry[f] = "file", !.text[f] = JsonBytes(data),
                               !.op = "exportTestData", !.file = f, !.threw = FALSE,
                               !.ret = Undefined]
    /\ UNCHANGED <<storeVars, runVars, helperVars, cfg, api, auth>>

\* clearCache(): this.cache.clear()
ClearCache ==
    /\ tdm' = [tdm EXCEPT !.cached = {}, !.data = NewTestDataManager.data]
    /\ dataDir' = [dataDir EXCEPT !.op = "clearCache", !.file = "none", !.threw = FALSE,
                                  !.ret = Undefined]
    /\ UNCHANGED <<storeVars, runVars, fx, retry, cfg, api, auth>>

TestDataNext ==
    \/ \E f \in FileNames : LoadTestData(f)
    \/ \E f \in FileNames, data \in ExportedData : ExportTestData(f, data)
    \/ ClearCache

SpecTestData == FixturesInit /\ [][TestDataNext]_vars

\* C30: in any interleaving of loadTestData, exportTestData and clearCache,
\* a loadTestData(f) that returns has returned the data the file f holds,
\* also when f was loaded before it was exported
LoadReturnsStoredData ==
    (dataDir.op = "loadTestData" /\ ~dataDir.threw) =>
        /\ ExistsTestData(dataDir, dataDir.file)
        /\ dataDir.ret = JSONparse(Utf8Decode(dataDir.text[dataDir.file])).value

\* C11: when the site rejects the submitted credentials, the global setup
\* fails (it does not complete and no test starts) and saves no snapshot
InvalidCredentialsFailBootstrap ==
    (boot.response = "rejected" /\ boot.captured # "submitted") =>
        /\ boot.captured = "none"
        /\ ~BootDone
        /\ run.phase # "tests"

\* C12: the snapshot is saved only after the statements before it have
\* completed and the site has answered the submitted form
SnapshotAfterNavigationSettled ==
    boot.captured # "none" =>
        /\ boot.pc >= 10
        /\ boot.captured \in {"authenticated", "anonymous"}

\* C13: the browser context of every test that has started was created from
\* the snapshot of the global setup
EveryTestStartsFromSnapshot ==
    \A t \in TestIds : tests[t].context # "none" => tests[t].context # "fresh"

====
